---- MODULE Spec2Model ----
(***************************************************************************)
(* A model of the clanker-sdk deployment compiler and execution pipeline:  *)
(*   - the V4 schema and converter (src/src/config/clankerTokenV4.ts),     *)
(*   - the result-tuple wrappers around the chain client                   *)
(*     (src/src/utils/write-clanker-contracts.ts),                         *)
(*   - deployToken and the waitForTransaction closure it returns           *)
(*     (deployment/deploy.ts, src/unnamed/part_000),                       *)
(*   - the error classifier (utils/errors.ts, src/unnamed/part_003),       *)
(*   - the V3 schema and converter (src/src/config/clankerTokenV3.ts).     *)
(*                                                                         *)
(* Conventions.  An optional value is a sequence of length 0 (absent) or 1 *)
(* (present).  An address, hash or hex blob is a string; an undefined      *)
(* address is the string Undefined.  encodeAbiParameters is modelled as    *)
(* the record of the encoded parameters (the encoding is injective).       *)
(* Token quantities are scaled: the real supply is 10^11 tokens of 10^18   *)
(* base units each, which no model checker integer holds; SupplyTokens and *)
(* WeiPerToken keep the structure (one basis point of the supply is        *)
(* several whole tokens, so a whole-token amount can leave a remainder).   *)
(***************************************************************************)
EXTENDS Integers, Sequences, FiniteSets, TLC

VARIABLES
    \* ---- clankerTokenV4Converter ----
    request,        \* the raw ClankerTokenV4 request handed to the converter
    target,         \* clankerConfigFor(chainId, 'clanker_v4') of the request's chain
    cpc,            \* converter position: start | vanity | assemble | returned | thrown
    cfg,            \* Some(parsed config) once clankerTokenV4.parse has succeeded
    vanityRes,      \* the { salt, token } pair of lines 312-331
    oracleQueries,  \* number of requests sent to the address-mining oracle
    airdropLocals,  \* airdropAmount, bpsAirdropped, roundingVerificationAirdrop
    payload,        \* Some(returned transaction config)
    convError       \* the error the converter threw, "" if none

VARIABLES
    \* ---- understandError ----
    failure,        \* the value a chain-client call threw: its cause chain, outermost first
    classified      \* Some(ClankerError) once understandError has returned

VARIABLES
    \* ---- deployToken, simulateDeployToken and the result-tuple wrappers ----
    op,             \* the operation called: deployToken | simulateDeployToken | writeClankerContract
    simulate,       \* options?.simulate of the writeClankerContract call
    clients,        \* whether the Clanker instance holds a wallet and a publicClient
    tx,             \* the transaction config handed in: chainId and gas
    walletAccount,  \* whether wallet.account is set
    clientChainId,  \* publicClient.chain?.id
    walletChainId,  \* wallet.chain?.id
    dpc,            \* position: start | estimating | simulating | writing | done | thrown
    calls,          \* the chain-client actions invoked so far, in order, each with its outcome
    gasRes,         \* Some(what estimateGasClankerContract resolved to)
    simRes,         \* Some(what simulateClankerContract resolved to)
    writeRes,       \* Some(what writeClankerContract resolved to)
    opRes,          \* Some(what the public operation resolved to)
    opThrown        \* the error the public operation threw, "" if none

VARIABLES
    \* ---- waitForTransaction, the closure deployToken returns ----
    waitCalls,      \* the chain-client actions its invocations made, one per invocation
    waitRes         \* per invocation: pending, or what it returned, or what it threw

convVars == <<request, target, cpc, cfg, vanityRes, oracleQueries, airdropLocals,
              payload, convError>>

errVars == <<failure, classified>>

deployVars == <<op, simulate, clients, tx, walletAccount, clientChainId, walletChainId, dpc, calls,
                gasRes, simRes, writeRes, opRes, opThrown>>

VARIABLES
    \* ---- clankerTokenV3Converter ----
    v3Request,      \* the raw ClankerTokenV3 config and options.requestorAddress
    clock,          \* the wall clock Date.now() reads: whole seconds and milliseconds
    v3pc,           \* position: idle | start | vanity | unlockDate | returned | thrown
    v3Cfg,          \* Some(parsed config) once clankerTokenV3.parse has succeeded
    v3Locals,       \* pairAddress, salt, expectedAddress, vestingUnlockDate
    v3Payload,      \* Some(returned transaction config)
    v3Error         \* the error the converter threw, "" if none

waitVars == <<waitCalls, waitRes>>

v3Vars == <<v3Request, clock, v3pc, v3Cfg, v3Locals, v3Payload, v3Error>>

vars == <<convVars, errVars, deployVars, waitVars, v3Vars>>

-----------------------------------------------------------------------------
(* Generic helpers *)

None == <<>>
Some(x) == <<x>>
IsSome(o) == Len(o) = 1
Get(o) == o[1]

Undefined == "undefined"
zeroAddress == "0x0000"
zeroHash == "0x00..00"

\* JavaScript truthiness of a number (NaN is not in the model).
Truthy(n) == n # 0

\* Array.prototype.reduce((agg, cur) => agg + cur, init) over a list of numbers.
RECURSIVE reduceAdd(_, _)
reduceAdd(s, init) == IF s = <<>> THEN init ELSE reduceAdd(Tail(s), init + Head(s))

Map(s, F(_)) == [i \in 1..Len(s) |-> F(s[i])]

-----------------------------------------------------------------------------
(* Scale of the model and program constants *)

\* Whole tokens of the total supply (10^11 in the program).
SupplyTokens == 30000
\* Base units per whole token and per ETH (BigInt(1e18) / 1e18 in the program).
WeiPerToken == 4

DEFAULT_SUPPLY == SupplyTokens * WeiPerToken

\* Basis points of a whole (10_000 throughout the schema and the converter).
BPS == 10000

-----------------------------------------------------------------------------
(* The clankerTokenV4 schema: one operator per field, TRUE iff zod accepts *)

\* tokenAdmin: an address that is not the zero address.
tokenAdminValid(a) == a # zeroAddress

\* pool.positions: every positionBps within [0, 10_000], at least one position,
\* and the refinement, whose callback returns the NUMBER
\*   v.reduce((agg, cur) => agg + cur.positionBps, 10_000)
\* which zod accepts when it is truthy.
positionsRefine(ps) == Truthy(reduceAdd(Map(ps, LAMBDA p : p.positionBps), BPS))

positionsValid(ps) ==
    /\ \A i \in 1..Len(ps) : ps[i].positionBps >= 0 /\ ps[i].positionBps <= BPS
    /\ Len(ps) >= 1
    /\ positionsRefine(ps)

\* pool: the positions, then the two object-level refinements.
touchesStartingTick(v) ==
    \E i \in 1..Len(v.positions) : v.positions[i].tickLower = v.tickIfToken0IsClanker

\* n % d === 0 on integers, as JavaScript computes it: the remainder of a zero
\* divisor is NaN, otherwise it is zero (of either sign) exactly when |d| divides |n|.
remainderIsZero(n, d) ==
    /\ d # 0
    /\ (IF n < 0 THEN -n ELSE n) % (IF d < 0 THEN -d ELSE d) = 0

\* Mutant of ticksAligned: only the lower ticks are compared with the spacing.
ticksAlignedLowerOnly(v) ==
    \A i \in 1..Len(v.positions) : remainderIsZero(v.positions[i].tickLower, v.tickSpacing)

ticksAligned(v) ==
    \A i \in 1..Len(v.positions) :
        /\ remainderIsZero(v.positions[i].tickLower, v.tickSpacing)
        /\ remainderIsZero(v.positions[i].tickUpper, v.tickSpacing)

poolValid(v) ==
    /\ positionsValid(v.positions)
    /\ touchesStartingTick(v)
    /\ ticksAligned(v)

\* vault (optional): percentage within [0, 90], lockup of at least 7 days.
vaultValid(o) ==
    IsSome(o) =>
        /\ Get(o).percentage >= 0 /\ Get(o).percentage <= 90
        /\ Get(o).lockupDuration >= 7 * 24 * 60 * 60

\* airdrop.amount bounds, in whole tokens:
\*   Number((DEFAULT_SUPPLY * 25n) / 10_000n / BigInt(1e18)) and the same with 9_000n.
\* Mutant of airdropAmountMin: the minimum is 24 bps of the supply.
airdropAmountMinLow == ((DEFAULT_SUPPLY * 24) \div BPS) \div WeiPerToken

airdropAmountMin == ((DEFAULT_SUPPLY * 25) \div BPS) \div WeiPerToken
airdropAmountMax == ((DEFAULT_SUPPLY * 9000) \div BPS) \div WeiPerToken

\* airdrop (optional): lockup of at least 1 day, amount within the bounds.
airdropValid(o) ==
    IsSome(o) =>
        /\ Get(o).lockupDuration >= 24 * 60 * 60
        /\ Get(o).amount >= airdropAmountMin
        /\ Get(o).amount <= airdropAmountMax

\* devBuy (optional, discriminated by poolType): ethAmount > 0; the v3 variant's
\* fee tier is one of 100, 500, 3000, 10000.
devBuyValid(o) ==
    IsSome(o) =>
        /\ Get(o).poolType \in {"v4", "v3"}
        /\ Get(o).ethAmount > 0
        /\ Get(o).poolType = "v3" => Get(o).v3PoolFee \in {100, 500, 3000, 10000}

\* fees (discriminated by type).
feesValid(f) ==
    /\ f.type \in {"static", "dynamic"}
    /\ f.type = "static" =>
          /\ f.clankerFee >= 0 /\ f.clankerFee <= 2000
          /\ f.pairedFee >= 0 /\ f.pairedFee <= 2000
    /\ f.type = "dynamic" =>
          /\ f.baseFee >= 25 /\ f.baseFee <= 2000
          /\ f.maxFee >= 0 /\ f.maxFee <= 3000

\* Mutant of sniperFeesValid: an ending fee equal to the starting fee passes.
sniperFeesValidAllowsEqual(v) ==
    /\ v.startingFee >= 30000 /\ v.startingFee <= 800000
    /\ v.endingFee >= 30000 /\ v.endingFee <= 800000
    /\ v.secondsToDecay >= 1 /\ v.secondsToDecay <= 120
    /\ v.endingFee <= v.startingFee

\* sniperFees: field ranges, then the refinement endingFee < startingFee.
sniperFeesValid(v) ==
    /\ v.startingFee >= 30000 /\ v.startingFee <= 800000
    /\ v.endingFee >= 30000 /\ v.endingFee <= 800000
    /\ v.secondsToDecay >= 1 /\ v.secondsToDecay <= 120
    /\ v.endingFee < v.startingFee

FeeIn == {"Both", "Paired", "Clanker"}

\* rewards (optional): every bps within [0, 10_000], at least one recipient, and
\* the refinement v.reduce((agg, cur) => agg + cur.bps, 0) === 10_000.
\* Mutant of recipientsRefine: the sum is returned as the callback's value instead
\* of being compared with 10_000 (the shape of the positions refinement).
recipientsRefineTruthy(rs) == Truthy(reduceAdd(Map(rs, LAMBDA r : r.bps), BPS))

recipientsRefine(rs) == reduceAdd(Map(rs, LAMBDA r : r.bps), 0) = BPS

rewardsValid(o) ==
    IsSome(o) =>
        /\ \A i \in 1..Len(Get(o).recipients) :
              /\ Get(o).recipients[i].bps >= 0 /\ Get(o).recipients[i].bps <= BPS
              /\ Get(o).recipients[i].token \in FeeIn
        /\ Len(Get(o).recipients) >= 1
        /\ recipientsRefine(Get(o).recipients)

\* The defaults the schema declares for fields the request may leave out.
defaultFees == [type |-> "static", clankerFee |-> 100, pairedFee |-> 100]
defaultSniperFees == [startingFee |-> 666777, endingFee |-> 41673, secondsToDecay |-> 15]

\* The request with the schema's defaults applied (what parse returns when it
\* accepts): fees and sniperFees are resolved, the optional blocks stay optional.
withDefaults(config) ==
    [config EXCEPT !.fees = IF IsSome(config.fees) THEN Get(config.fees) ELSE defaultFees,
                   !.sniperFees = IF IsSome(config.sniperFees) THEN Get(config.sniperFees)
                                  ELSE defaultSniperFees]

\* clankerTokenV4.parse(config) succeeds.
schemaAccepts(config) ==
    /\ tokenAdminValid(config.tokenAdmin)
    /\ poolValid(config.pool)
    /\ vaultValid(config.vault)
    /\ airdropValid(config.airdrop)
    /\ devBuyValid(config.devBuy)
    /\ feesValid(withDefaults(config).fees)
    /\ sniperFeesValid(withDefaults(config).sniperFees)
    /\ rewardsValid(config.rewards)

-----------------------------------------------------------------------------
(* clankerTokenV4Converter: the pieces of the conversion *)

\* Lines 291-302: an omitted rewards block becomes one recipient, the token admin.
withDefaultRewards(c) ==
    IF IsSome(c.rewards) THEN c
    ELSE [c EXCEPT !.rewards =
             Some([recipients |-> << [admin |-> c.tokenAdmin, recipient |-> c.tokenAdmin,
                                      bps |-> BPS, token |-> "Both"] >>])]

\* Line 333: BigInt(cfg.airdrop?.amount || 0) * BigInt(1e18).
airdropAmountOf(c) ==
    (IF IsSome(c.airdrop) /\ Truthy(Get(c.airdrop).amount) THEN Get(c.airdrop).amount ELSE 0)
        * WeiPerToken

\* Mutant of bpsAirdroppedOf: the truncating quotient alone, without the round-up.
bpsAirdroppedTruncated(airdropAmount) == (airdropAmount * BPS) \div DEFAULT_SUPPLY

\* Lines 336-338: the quotient, plus one when the division leaves a remainder.
bpsAirdroppedOf(airdropAmount) ==
    (airdropAmount * BPS) \div DEFAULT_SUPPLY
        + (IF Truthy((airdropAmount * BPS) % DEFAULT_SUPPLY) THEN 1 ELSE 0)

\* Line 339.
roundingVerificationAirdropOf(bpsAirdropped) == (bpsAirdropped * DEFAULT_SUPPLY) \div BPS

\* Line 341.
roundedAirdropTooLow(airdropAmount, verification) == airdropAmount > verification

\* Lines 349-350.
roundedAirdropTooHigh(airdropAmount, verification) ==
    ((verification - airdropAmount) * BPS) \div DEFAULT_SUPPLY > 1

\* encodeFeeConfig (lines 460-530): the hook and the pool data for the fee variant.
\* threw stands for the final throw new Error('Invalid config type').
\* encodeAbiParameters(abi, values) keeps the parameter list and the values in order.
encodeAbiParameters(abi, values) == [abi |-> abi, args |-> values]

\* Mutant of staticFeeData: the two fees are encoded in bps, without the rescaling.
staticFeeDataUnscaled(config) ==
    encodeAbiParameters("ClankerHook_StaticFee_Instantiation_v4_abi",
                        << config.clankerFee, config.pairedFee >>)

\* Lines 475-478.
staticFeeData(config) ==
    encodeAbiParameters("ClankerHook_StaticFee_Instantiation_v4_abi",
                        << config.clankerFee * 100, config.pairedFee * 100 >>)

\* Lines 500-508.
dynamicFeeData(config) ==
    encodeAbiParameters("ClankerHook_DynamicFee_Instantiation_v4_abi",
                        << config.baseFee * 100, config.maxFee * 100,
                           config.referenceTickFilterPeriod, config.resetPeriod,
                           config.resetTickFilter, config.feeControlNumerator,
                           config.decayFilterBps >>)

\* Lines 483-489 and 513-519: the fee block wrapped with the pool extension.
poolInitializationData(tokenConfig, feeData) ==
    encodeAbiParameters("Clanker_PoolInitializationData_v4_1_abi",
                        << [extension |-> tokenConfig.poolExtension.address,
                            extensionData |-> tokenConfig.poolExtension.initData,
                            feeData |-> feeData] >>)

\* Lines 495 and 525: poolData: feeData.
bareFeeData(feeData) == feeData

\* Line 529: throw new Error('Invalid config type').
noFeeConfig == [threw |-> TRUE, hook |-> Undefined, poolData |-> encodeAbiParameters("", <<>>)]

\* Mutant of encodeFeeConfig: the second-generation hook is returned with the bare
\* fee block whenever the target has one.
encodeFeeConfigNeverWraps(tokenConfig, clankerConfig) ==
    LET config == tokenConfig.fees
        related == clankerConfig.related
    IN  IF config.type = "static" THEN
            IF related.feeStaticHookV2 # Undefined
            THEN [threw |-> FALSE, hook |-> related.feeStaticHookV2,
                  poolData |-> bareFeeData(staticFeeData(config))]
            ELSE [threw |-> FALSE, hook |-> related.feeStaticHook,
                  poolData |-> bareFeeData(staticFeeData(config))]
        ELSE IF config.type = "dynamic" THEN
            IF related.feeDynamicHookV2 # Undefined
            THEN [threw |-> FALSE, hook |-> related.feeDynamicHookV2,
                  poolData |-> bareFeeData(dynamicFeeData(config))]
            ELSE [threw |-> FALSE, hook |-> related.feeDynamicHook,
                  poolData |-> bareFeeData(dynamicFeeData(config))]
        ELSE noFeeConfig

encodeFeeConfig(tokenConfig, clankerConfig) ==
    LET config == tokenConfig.fees
        related == clankerConfig.related
    IN  IF config.type = "static" THEN
            IF related.feeStaticHookV2 # Undefined
            THEN [threw |-> FALSE, hook |-> related.feeStaticHookV2,
                  poolData |-> poolInitializationData(tokenConfig, staticFeeData(config))]
            ELSE [threw |-> FALSE, hook |-> related.feeStaticHook,
                  poolData |-> bareFeeData(staticFeeData(config))]
        ELSE IF config.type = "dynamic" THEN
            IF related.feeDynamicHookV2 # Undefined
            THEN [threw |-> FALSE, hook |-> related.feeDynamicHookV2,
                  poolData |-> poolInitializationData(tokenConfig, dynamicFeeData(config))]
            ELSE [threw |-> FALSE, hook |-> related.feeDynamicHook,
                  poolData |-> bareFeeData(dynamicFeeData(config))]
        ELSE noFeeConfig

\* One entry of extensionConfigs.
extensionEntry(extension, msgValue, extensionBps, extensionData) ==
    [extension |-> extension, msgValue |-> msgValue, extensionBps |-> extensionBps,
     extensionData |-> extensionData]

\* Mutant of encodeDevBuyExtension: a missing devbuyV3 module falls back to the
\* devbuy module instead of throwing.
encodeDevBuyExtensionFallsBack(tokenConfig, clankerConfig) ==
    IF ~IsSome(tokenConfig.devBuy) THEN [threw |-> FALSE, exts |-> <<>>]
    ELSE LET devBuy == Get(tokenConfig.devBuy) IN
         [threw |-> FALSE, exts |-> <<
             extensionEntry(IF devBuy.poolType = "v3" /\ clankerConfig.related.devbuyV3 # Undefined
                            THEN clankerConfig.related.devbuyV3
                            ELSE clankerConfig.related.devbuy,
                            devBuy.ethAmount * WeiPerToken, 0,
                            encodeAbiParameters(
                                "ClankerUniv3EthDevBuy_Instantiation_v4_abi",
                                << devBuy.amountOutMin * WeiPerToken,
                                   tokenConfig.tokenAdmin >>)) >>]

\* encodeDevBuyExtension (lines 540-590).
encodeDevBuyExtension(tokenConfig, clankerConfig) ==
    IF ~IsSome(tokenConfig.devBuy) THEN [threw |-> FALSE, exts |-> <<>>]
    ELSE LET devBuy == Get(tokenConfig.devBuy) IN
         IF devBuy.poolType = "v3" THEN
             IF clankerConfig.related.devbuyV3 = Undefined
             THEN [threw |-> TRUE, exts |-> <<>>]
             ELSE [threw |-> FALSE, exts |-> <<
                     extensionEntry(clankerConfig.related.devbuyV3,
                                    devBuy.ethAmount * WeiPerToken, 0,
                                    encodeAbiParameters(
                                        "ClankerUniv3EthDevBuy_Instantiation_v4_abi",
                                        << devBuy.v3PoolFee,
                                           devBuy.amountOutMin * WeiPerToken,
                                           tokenConfig.tokenAdmin >>)) >>]
         ELSE [threw |-> FALSE, exts |-> <<
                 extensionEntry(clankerConfig.related.devbuy,
                                devBuy.ethAmount * WeiPerToken, 0,
                                encodeAbiParameters(
                                    "ClankerUniV4EthDevBuy_Instantiation_v4_abi",
                                    << devBuy.poolKey,
                                       devBuy.amountOutMin * WeiPerToken,
                                       tokenConfig.tokenAdmin >>)) >>]

\* Mutant of vaultExtension: the percentage is used as the share, unscaled.
vaultExtensionUnscaled(c, clankerConfig) ==
    IF IsSome(c.vault)
    THEN << extensionEntry(clankerConfig.related.vault, 0, Get(c.vault).percentage,
                encodeAbiParameters("ClankerVault_Instantiation_v4_abi",
                    << IF Get(c.vault).recipient # Undefined THEN Get(c.vault).recipient
                       ELSE c.tokenAdmin,
                       Get(c.vault).lockupDuration,
                       Get(c.vault).vestingDuration >>)) >>
    ELSE <<>>

\* Lines 412-425: the vault entry, present iff cfg.vault is.
vaultExtension(c, clankerConfig) ==
    IF IsSome(c.vault)
    THEN << extensionEntry(clankerConfig.related.vault, 0, Get(c.vault).percentage * 100,
                encodeAbiParameters("ClankerVault_Instantiation_v4_abi",
                    << IF Get(c.vault).recipient # Undefined THEN Get(c.vault).recipient
                       ELSE c.tokenAdmin,
                       Get(c.vault).lockupDuration,
                       Get(c.vault).vestingDuration >>)) >>
    ELSE <<>>

\* Mutant of airdropExtension: the admin of the request is ignored.
airdropExtensionTokenAdmin(c, clankerConfig, bpsAirdropped) ==
    IF IsSome(c.airdrop)
    THEN << extensionEntry(clankerConfig.related.airdrop, 0, bpsAirdropped,
                encodeAbiParameters("ClankerAirdropV2_Instantiation_v4_abi",
                    << c.tokenAdmin,
                       Get(c.airdrop).merkleRoot,
                       Get(c.airdrop).lockupDuration,
                       Get(c.airdrop).vestingDuration >>)) >>
    ELSE <<>>

\* Lines 427-441: the airdrop entry, present iff cfg.airdrop is.
airdropExtension(c, clankerConfig, bpsAirdropped) ==
    IF IsSome(c.airdrop)
    THEN << extensionEntry(clankerConfig.related.airdrop, 0, bpsAirdropped,
                encodeAbiParameters("ClankerAirdropV2_Instantiation_v4_abi",
                    << IF Get(c.airdrop).admin # Undefined THEN Get(c.airdrop).admin
                       ELSE c.tokenAdmin,
                       Get(c.airdrop).merkleRoot,
                       Get(c.airdrop).lockupDuration,
                       Get(c.airdrop).vestingDuration >>)) >>
    ELSE <<>>

\* Mutant of extensionConfigsOf: the airdrop entry spread before the vault entry.
extensionConfigsAirdropFirst(c, clankerConfig, bpsAirdropped) ==
    airdropExtension(c, clankerConfig, bpsAirdropped)
        \o vaultExtension(c, clankerConfig)
        \o encodeDevBuyExtension(c, clankerConfig).exts

\* Lines 410-444: the spread of the three optional parts, in source order.
extensionConfigsOf(c, clankerConfig, bpsAirdropped) ==
    vaultExtension(c, clankerConfig)
        \o airdropExtension(c, clankerConfig, bpsAirdropped)
        \o encodeDevBuyExtension(c, clankerConfig).exts

\* Lines 398-409.
mevModuleConfigOf(c, clankerConfig) ==
    LET related == clankerConfig.related IN
    [mevModule |-> IF related.mevModuleV2 # Undefined THEN related.mevModuleV2
                   ELSE related.mevModule,
     mevModuleData |-> IF related.mevModuleV2 # Undefined
                       THEN Some(encodeAbiParameters(
                                "Clanker_MevSniperAuction_InitData_v4_1_abi",
                                << [startingFee |-> c.sniperFees.startingFee,
                                    endingFee |-> c.sniperFees.endingFee,
                                    secondsToDecay |-> c.sniperFees.secondsToDecay] >>))
                       ELSE None]

\* Mutant of payloadValue: no native value is attached to the payload.
payloadValueZero(c) == 0

\* Line 447: cfg.devBuy ? BigInt(cfg.devBuy?.ethAmount * 1e18) : 0n.
payloadValue(c) == IF IsSome(c.devBuy) THEN Get(c.devBuy).ethAmount * WeiPerToken ELSE 0

\* Lines 360-450: the returned transaction config.
payloadOf(c, clankerConfig, vanity, bpsAirdropped) ==
    LET recipients == Get(c.rewards).recipients
        fee == encodeFeeConfig(c, clankerConfig)
    IN [address |-> clankerConfig.address,
        functionName |-> "deployToken",
        tokenConfig |-> [tokenAdmin |-> c.tokenAdmin, salt |-> vanity.salt],
        lockerConfig |->
            [feePreference |-> Map(recipients, LAMBDA r : r.token),
             rewardAdmins |-> Map(recipients, LAMBDA r : r.admin),
             rewardRecipients |-> Map(recipients, LAMBDA r : r.recipient),
             rewardBps |-> Map(recipients, LAMBDA r : r.bps),
             tickLower |-> Map(c.pool.positions, LAMBDA q : q.tickLower),
             tickUpper |-> Map(c.pool.positions, LAMBDA q : q.tickUpper),
             positionBps |-> Map(c.pool.positions, LAMBDA q : q.positionBps)],
        poolConfig |->
            [tickIfToken0IsClanker |-> c.pool.tickIfToken0IsClanker,
             tickSpacing |-> c.pool.tickSpacing,
             hook |-> fee.hook, poolData |-> fee.poolData],
        mevModuleConfig |-> mevModuleConfigOf(c, clankerConfig),
        extensionConfigs |-> extensionConfigsOf(c, clankerConfig, bpsAirdropped),
        value |-> payloadValue(c),
        expectedAddress |-> vanity.token,
        chainId |-> clankerConfig.chainId]

-----------------------------------------------------------------------------
(* Inputs of the converter: requests and resolved deployment targets *)

\* Longest list of liquidity positions and of reward recipients in a request.
MaxPositions == 2
MaxRecipients == 2

SeqsUpTo(S, n) == UNION {[1..k -> S] : k \in 0..n}

\* A target with every second-generation module deployed.
fullRelated ==
    [locker |-> "locker", vault |-> "vault", airdrop |-> "airdrop",
     devbuy |-> "devbuy", devbuyV3 |-> "devbuyV3",
     mevModule |-> "mevModule", mevModuleV2 |-> "mevModuleV2",
     feeStaticHook |-> "feeStaticHook", feeStaticHookV2 |-> "feeStaticHookV2",
     feeDynamicHook |-> "feeDynamicHook", feeDynamicHookV2 |-> "feeDynamicHookV2"]

fullTarget == [chainId |-> 8453, address |-> "clanker_v4", hasRelated |-> TRUE,
               related |-> fullRelated]

\* A chain of the Chains list for which clankerConfigFor finds no v4 deployment.
noV4Target == [fullTarget EXCEPT !.hasRelated = FALSE]

\* Targets that differ in the legacy devBuy module.
ExtTargets ==
    {[fullTarget EXCEPT !.related.devbuyV3 = d] : d \in {"devbuyV3", Undefined}}
        \cup {noV4Target}

\* Targets that differ in the second-generation hooks and MEV module.
FeeTargets ==
    {[fullTarget EXCEPT !.related.feeStaticHookV2 = s, !.related.feeDynamicHookV2 = d,
                        !.related.mevModuleV2 = m] :
        s \in {"feeStaticHookV2", Undefined}, d \in {"feeDynamicHookV2", Undefined},
        m \in {"mevModuleV2", Undefined}}

standardPool ==
    [tickIfToken0IsClanker |-> -230400, tickSpacing |-> 200,
     positions |-> << [tickLower |-> -230400, tickUpper |-> -120000, positionBps |-> BPS] >>]

baseRequest ==
    [tokenAdmin |-> "0xA1", pool |-> standardPool, vault |-> None, airdrop |-> None,
     devBuy |-> None, fees |-> None, sniperFees |-> None, rewards |-> None,
     vanity |-> FALSE, poolExtension |-> [address |-> zeroAddress, initData |-> "0x"]]

\* Requests that vary the liquidity positions.
PositionChoices ==
    [tickLower : {-230400, -230200, -230300}, tickUpper : {-120000},
     positionBps : {0, 1, 4000, 6000, 9999, 10000, 10001}]

PoolRequests ==
    {[baseRequest EXCEPT !.pool.positions = ps] : ps \in SeqsUpTo(PositionChoices, MaxPositions)}

\* Requests that vary the starting tick, the tick spacing and the positions' ticks.
TickChoices ==
    [tickLower : {-230400, -230200, -230300, 0}, tickUpper : {-120000, -120100},
     positionBps : {5000}]

TickRequests ==
    {[baseRequest EXCEPT !.pool = [tickIfToken0IsClanker |-> t, tickSpacing |-> sp,
                                   positions |-> ps]] :
        t \in {-230400, 0}, sp \in {200, 60, 0, -200},
        ps \in SeqsUpTo(TickChoices, MaxPositions)}

\* Requests that vary the reward recipients and the token admin.
RecipientChoices ==
    [admin : {"0xA1"}, recipient : {"0xB2"}, bps : {0, 1, 5000, 9999, 10000, 10001},
     token : {"Both", "Paired"}]

RewardChoices ==
    {None} \cup {Some([recipients |-> rs]) : rs \in SeqsUpTo(RecipientChoices, MaxRecipients)}

RewardRequests ==
    {[baseRequest EXCEPT !.rewards = r, !.tokenAdmin = a] :
        r \in RewardChoices, a \in {"0xA1", "0xC3", zeroAddress}}

\* Requests that vary the extensions and the vanity flag.
VaultChoices ==
    {None}
    \cup {Some([percentage |-> q, lockupDuration |-> 604800, vestingDuration |-> 0,
                recipient |-> Undefined]) : q \in {0, 10, 90, 91}}
    \cup {Some([percentage |-> 10, lockupDuration |-> 604800, vestingDuration |-> 86400,
                recipient |-> "0xB2"])}

AirdropAmounts ==
    {airdropAmountMin - 1, airdropAmountMin, airdropAmountMin + 1, airdropAmountMin + 2,
     airdropAmountMin + 3, (airdropAmountMin + airdropAmountMax) \div 2,
     airdropAmountMax - 1, airdropAmountMax, airdropAmountMax + 1}

AirdropChoices ==
    {None}
    \cup {Some([admin |-> Undefined, merkleRoot |-> "0xroot", lockupDuration |-> 86400,
                vestingDuration |-> 0, amount |-> a]) : a \in AirdropAmounts}
    \cup {Some([admin |-> "0xD4", merkleRoot |-> "0xroot2", lockupDuration |-> 172800,
                vestingDuration |-> 86400, amount |-> airdropAmountMin + 1])}

\* Requests whose airdrop amount sweeps both ends of the accepted range, one
\* token at a time.
SweepWidth == 100

AirdropSweepRequests ==
    {[baseRequest EXCEPT !.airdrop =
          Some([admin |-> Undefined, merkleRoot |-> "0xroot", lockupDuration |-> 86400,
                vestingDuration |-> 0, amount |-> a])] :
        a \in ((airdropAmountMin - 1)..(airdropAmountMin + SweepWidth))
               \cup ((airdropAmountMax - SweepWidth)..(airdropAmountMax + 1))}

DevBuyChoices ==
    {None,
     Some([poolType |-> "v4", ethAmount |-> 1, poolKey |-> "NULL_DEVBUY_POOL_CONFIG",
           amountOutMin |-> 0]),
     Some([poolType |-> "v4", ethAmount |-> 0, poolKey |-> "NULL_DEVBUY_POOL_CONFIG",
           amountOutMin |-> 0]),
     Some([poolType |-> "v3", ethAmount |-> 2, v3PoolFee |-> 3000, amountOutMin |-> 0]),
     Some([poolType |-> "v3", ethAmount |-> 2, v3PoolFee |-> 2500, amountOutMin |-> 0])}

ExtRequests ==
    {[baseRequest EXCEPT !.vault = v, !.airdrop = a, !.devBuy = d, !.vanity = y] :
        v \in VaultChoices, a \in AirdropChoices, d \in DevBuyChoices, y \in BOOLEAN}

\* Requests that vary the fee variant, the sniper fees and the pool extension.
dynamicFees(baseFee, maxFee) ==
    [type |-> "dynamic", baseFee |-> baseFee, maxFee |-> maxFee,
     referenceTickFilterPeriod |-> 30, resetPeriod |-> 120, resetTickFilter |-> 200,
     feeControlNumerator |-> 500000, decayFilterBps |-> 7500]

FeeChoices ==
    {None,
     Some([type |-> "static", clankerFee |-> 100, pairedFee |-> 200]),
     Some([type |-> "static", clankerFee |-> 2001, pairedFee |-> 0]),
     Some(dynamicFees(100, 500)),
     Some(dynamicFees(24, 500))}

SniperChoices ==
    {None,
     Some([startingFee |-> 500000, endingFee |-> 40000, secondsToDecay |-> 30]),
     Some([startingFee |-> 40000, endingFee |-> 40000, secondsToDecay |-> 30]),
     Some([startingFee |-> 40000, endingFee |-> 500000, secondsToDecay |-> 30]),
     Some([startingFee |-> 800000, endingFee |-> 30000, secondsToDecay |-> 1]),
     Some([startingFee |-> 800001, endingFee |-> 30000, secondsToDecay |-> 1]),
     Some([startingFee |-> 800000, endingFee |-> 29999, secondsToDecay |-> 120]),
     Some([startingFee |-> 500000, endingFee |-> 40000, secondsToDecay |-> 120]),
     Some([startingFee |-> 500000, endingFee |-> 40000, secondsToDecay |-> 121]),
     Some([startingFee |-> 500000, endingFee |-> 40000, secondsToDecay |-> 0])}

FeeRequests ==
    {[baseRequest EXCEPT !.fees = f, !.sniperFees = n, !.poolExtension = x] :
        f \in FeeChoices, n \in SniperChoices,
        x \in {[address |-> zeroAddress, initData |-> "0x"],
               [address |-> "0xE7", initData |-> "0x01"]}}

\* What the address-mining oracle may answer.
OracleAnswers ==
    {[address |-> "0x01..4b07", salt |-> "0xsalt1"], [address |-> "0x02..4b07", salt |-> "0xsalt2"]}

\* Mutant of findVanityAddressV4: the mined address is not handed back.
findVanityAddressV4SaltOnly(answer) == [salt |-> answer.salt, token |-> Undefined]

\* findVanityAddressV4, lines 75-80: return { token: address, salt }.
findVanityAddressV4(answer) == [salt |-> answer.salt, token |-> answer.address]

-----------------------------------------------------------------------------
(* clankerTokenV4Converter as a state machine *)

\* The classifier and the pipeline at rest, while the converter is what runs.
ErrIdle == failure = <<>> /\ classified = None

bothClients == [wallet |-> TRUE, publicClient |-> TRUE]

\* waitForTransaction has not been invoked.
WaitIdle == waitCalls = <<>> /\ waitRes = <<>>

\* The clock at the start of a run: 2023-11-14T22:13:20Z, in seconds.
ClockStart == 1700000000

noV3Locals ==
    [pairAddress |-> Undefined, salt |-> Undefined, expectedAddress |-> Undefined,
     vestingUnlockDate |-> 0]

\* The V3 converter has not been called.
V3Idle ==
    /\ v3Request = None
    /\ clock = [s |-> ClockStart, ms |-> 0]
    /\ v3pc = "idle"
    /\ v3Cfg = None
    /\ v3Locals = noV3Locals
    /\ v3Payload = None
    /\ v3Error = ""

DeployIdle ==
    /\ WaitIdle
    /\ V3Idle
    /\ op = "none"
    /\ simulate = FALSE
    /\ clients = bothClients
    /\ tx = [chainId |-> 8453, gas |-> None]
    /\ walletAccount = TRUE
    /\ clientChainId = 8453
    /\ walletChainId = 8453
    /\ dpc = "start"
    /\ calls = <<>>
    /\ gasRes = None /\ simRes = None /\ writeRes = None /\ opRes = None
    /\ opThrown = ""

noLocals == [airdropAmount |-> 0, bpsAirdropped |-> 0, roundingVerificationAirdrop |-> 0]
noVanity == [salt |-> Undefined, token |-> Undefined]

ConvInit ==
    /\ \/ request \in PoolRequests /\ target = fullTarget
       \/ request \in TickRequests /\ target = fullTarget
       \/ request \in AirdropSweepRequests /\ target = fullTarget
       \/ request \in RewardRequests /\ target = fullTarget
       \/ request \in ExtRequests /\ target \in ExtTargets
       \/ request \in FeeRequests /\ target \in FeeTargets
    /\ cpc = "start"
    /\ cfg = None
    /\ vanityRes = noVanity
    /\ oracleQueries = 0
    /\ airdropLocals = noLocals
    /\ payload = None
    /\ convError = ""
    /\ ErrIdle
    /\ DeployIdle

\* Lines 289-331, up to the await: parse, default the rewards, resolve the target,
\* then either send the oracle query or take the zero salt.
Parse ==
    /\ cpc = "start"
    /\ IF ~schemaAccepts(request) THEN
           /\ cpc' = "thrown"
           /\ convError' = "ZodError"
           /\ UNCHANGED <<cfg, vanityRes, oracleQueries>>
       ELSE IF ~target.hasRelated THEN
           /\ cpc' = "thrown"
           /\ convError' = "No clanker v4 configuration"
           /\ cfg' = Some(withDefaultRewards(withDefaults(request)))
           /\ UNCHANGED <<vanityRes, oracleQueries>>
       ELSE
           /\ cfg' = Some(withDefaultRewards(withDefaults(request)))
           /\ convError' = ""
           /\ IF request.vanity
              THEN /\ cpc' = "vanity"
                   /\ oracleQueries' = oracleQueries + 1
                   /\ UNCHANGED vanityRes
              ELSE /\ cpc' = "assemble"
                   /\ vanityRes' = [salt |-> zeroHash, token |-> Undefined]
                   /\ UNCHANGED oracleQueries
    /\ UNCHANGED <<request, target, airdropLocals, payload>>
    /\ UNCHANGED <<errVars, deployVars, waitVars, v3Vars>>

\* findVanityAddressV4 resolves with the oracle's { address, salt }.
VanityAnswer ==
    /\ cpc = "vanity"
    /\ \E r \in OracleAnswers : vanityRes' = findVanityAddressV4(r)
    /\ cpc' = "assemble"
    /\ UNCHANGED <<request, target, cfg, oracleQueries, airdropLocals, payload, convError>>
    /\ UNCHANGED <<errVars, deployVars, waitVars, v3Vars>>

\* fetch rejects: the converter rejects with the same failure.
VanityFailure ==
    /\ cpc = "vanity"
    /\ cpc' = "thrown"
    /\ convError' = "fetch failed"
    /\ UNCHANGED <<request, target, cfg, vanityRes, oracleQueries, airdropLocals, payload>>
    /\ UNCHANGED <<errVars, deployVars, waitVars, v3Vars>>

\* Lines 333-451: the airdrop arithmetic and its two checks, the fee encoding,
\* and the returned object (whose extension list may throw for devBuy).
Assemble ==
    /\ cpc = "assemble"
    /\ LET c == Get(cfg)
           airdropAmount == airdropAmountOf(c)
           bpsAirdropped == bpsAirdroppedOf(airdropAmount)
           verification == roundingVerificationAirdropOf(bpsAirdropped)
       IN /\ airdropLocals' = [airdropAmount |-> airdropAmount,
                               bpsAirdropped |-> bpsAirdropped,
                               roundingVerificationAirdrop |-> verification]
          /\ IF roundedAirdropTooLow(airdropAmount, verification) THEN
                 /\ cpc' = "thrown"
                 /\ convError' = "Precision error for airdrop: too low"
                 /\ UNCHANGED payload
             ELSE IF roundedAirdropTooHigh(airdropAmount, verification) THEN
                 /\ cpc' = "thrown"
                 /\ convError' = "Precision error for airdrop: too large"
                 /\ UNCHANGED payload
             ELSE IF encodeFeeConfig(c, target).threw THEN
                 /\ cpc' = "thrown"
                 /\ convError' = "Invalid config type"
                 /\ UNCHANGED payload
             ELSE IF encodeDevBuyExtension(c, target).threw THEN
                 /\ cpc' = "thrown"
                 /\ convError' = "V3 devBuy extension is not deployed on this chain"
                 /\ UNCHANGED payload
             ELSE
                 /\ cpc' = "returned"
                 /\ payload' = Some(payloadOf(c, target, vanityRes, bpsAirdropped))
                 /\ UNCHANGED convError
    /\ UNCHANGED <<request, target, cfg, vanityRes, oracleQueries>>
    /\ UNCHANGED <<errVars, deployVars, waitVars, v3Vars>>

Init == ConvInit

Next ==
    \/ Parse
    \/ VanityAnswer
    \/ VanityFailure
    \/ Assemble

Spec == Init /\ [][Next]_vars

-----------------------------------------------------------------------------
(* Claims about the V4 schema and converter, checked under Spec *)

\* The converter has gone past clankerTokenV4.parse.
parsed == cpc # "start"

\* parse rejected the request: the converter threw the schema's error.
rejectedBySchema == cpc = "thrown" /\ convError = "ZodError" /\ payload = None

\* The converter has run the airdrop arithmetic of lines 333-356.
assembled ==
    \/ cpc = "returned"
    \/ cpc = "thrown" /\ convError \notin {"ZodError", "No clanker v4 configuration",
                                           "fetch failed"}

requestPositionSum == reduceAdd(Map(request.pool.positions, LAMBDA q : q.positionBps), 0)

\* C1: a request whose positionBps do not sum to exactly 10,000 fails validation
\* and yields no payload.
C1_PositionsMustSumTo10000 ==
    (parsed /\ requestPositionSum # BPS) => rejectedBySchema

\* C2: every accepted request's rewardBps sum to exactly 10,000; a supplied list
\* with another sum fails validation; an omitted rewards block becomes the single
\* recipient (admin = recipient = token admin, 10,000 bps).
C2_RewardBpsSumTo10000 ==
    /\ IsSome(payload) => reduceAdd(Get(payload).lockerConfig.rewardBps, 0) = BPS
    /\ (parsed /\ IsSome(request.rewards)
          /\ reduceAdd(Map(Get(request.rewards).recipients, LAMBDA r : r.bps), 0) # BPS)
       => rejectedBySchema
    /\ (IsSome(payload) /\ ~IsSome(request.rewards)) =>
          /\ Get(payload).lockerConfig.rewardBps = << BPS >>
          /\ Get(payload).lockerConfig.rewardAdmins = << request.tokenAdmin >>
          /\ Get(payload).lockerConfig.rewardRecipients = << request.tokenAdmin >>

\* C2 witness: a payload returned for two supplied recipients of 5,000 bps each.
C2_Witness ==
    /\ IsSome(payload)
    /\ IsSome(request.rewards)
    /\ Get(payload).lockerConfig.rewardBps = << 5000, 5000 >>

\* C3: the share b the converter computes is ceil(A * 10000 / S), that is the
\* least b with b * S >= A * 10000 (the quotient, plus one when the remainder is
\* non-zero), and the verified quantity b * S / 10000 is never below A.
C3_AirdropShareIsCeiling ==
    assembled =>
        LET A == airdropLocals.airdropAmount
            b == airdropLocals.bpsAirdropped
            verified == airdropLocals.roundingVerificationAirdrop
            S == DEFAULT_SUPPLY
        IN /\ A = (IF IsSome(request.airdrop) THEN Get(request.airdrop).amount ELSE 0)
                    * WeiPerToken
           /\ A >= 0 /\ A * 10 <= S * 9
           /\ b * S >= A * BPS
           /\ (b - 1) * S < A * BPS
           /\ b = (A * BPS) \div S + (IF (A * BPS) % S = 0 THEN 0 ELSE 1)
           /\ verified = (b * S) \div BPS
           /\ verified >= A

\* C3 witness: a returned payload whose airdrop amount is not a whole number of
\* basis points, so the share was rounded up.
C3_Witness ==
    /\ cpc = "returned"
    /\ IsSome(request.airdrop)
    /\ (airdropLocals.airdropAmount * BPS) % DEFAULT_SUPPLY # 0
    /\ airdropLocals.bpsAirdropped = (airdropLocals.airdropAmount * BPS) \div DEFAULT_SUPPLY + 1
    /\ airdropLocals.roundingVerificationAirdrop > airdropLocals.airdropAmount

\* The kind of an extension entry, by the module address it targets.
extensionRank(e) ==
    IF e.extension = target.related.vault THEN 1
    ELSE IF e.extension = target.related.airdrop THEN 2
    ELSE IF e.extension \in {target.related.devbuy, target.related.devbuyV3} THEN 3
    ELSE 0

\* C4: the extension list of a payload holds exactly the requested extensions, at
\* most one of each kind, in the order vault, airdrop, devBuy, with no placeholder.
C4_ExtensionOrder ==
    IsSome(payload) =>
        LET exts == Get(payload).extensionConfigs
            has(k) == \E i \in 1..Len(exts) : extensionRank(exts[i]) = k
        IN /\ \A i \in 1..Len(exts) : extensionRank(exts[i]) \in {1, 2, 3}
           /\ \A i, j \in 1..Len(exts) :
                 i < j => extensionRank(exts[i]) < extensionRank(exts[j])
           /\ has(1) <=> IsSome(request.vault)
           /\ has(2) <=> IsSome(request.airdrop)
           /\ has(3) <=> IsSome(request.devBuy)

\* C4 witness: a payload with all three extensions.
C4_Witness ==
    /\ IsSome(payload)
    /\ Len(Get(payload).extensionConfigs) = 3
    /\ IsSome(request.vault) /\ IsSome(request.airdrop) /\ IsSome(request.devBuy)

\* The fee block of a payload, whether poolData wraps it or is it.
feeBlockOf(poolData) ==
    IF poolData.abi = "Clanker_PoolInitializationData_v4_1_abi"
    THEN poolData.args[1].feeData
    ELSE poolData

\* C11: a static fee variant is encoded as clankerFee*100 and pairedFee*100 and
\* paired with one of the target's static-fee hooks; a dynamic variant is encoded
\* with baseFee*100 and maxFee*100 and paired with one of the dynamic-fee hooks;
\* the hook of one variant is never the other's (clankerFee 100 and pairedFee 200
\* encode 10,000 and 20,000).
C11_FeeVariantEncoding ==
    IsSome(payload) =>
        LET f == Get(cfg).fees
            pc == Get(payload).poolConfig
            block == feeBlockOf(pc.poolData)
            staticHooks == {target.related.feeStaticHook, target.related.feeStaticHookV2}
            dynamicHooks == {target.related.feeDynamicHook, target.related.feeDynamicHookV2}
        IN /\ pc.hook # Undefined
           /\ f.type \in {"static", "dynamic"}
           /\ f.type = "static" =>
                 /\ block.abi = "ClankerHook_StaticFee_Instantiation_v4_abi"
                 /\ block.args = << f.clankerFee * 100, f.pairedFee * 100 >>
                 /\ pc.hook \in staticHooks /\ pc.hook \notin dynamicHooks
                 /\ (f.clankerFee = 100 /\ f.pairedFee = 200) => block.args = << 10000, 20000 >>
           /\ f.type = "dynamic" =>
                 /\ block.abi = "ClankerHook_DynamicFee_Instantiation_v4_abi"
                 /\ block.args[1] = f.baseFee * 100 /\ block.args[2] = f.maxFee * 100
                 /\ Len(block.args) = 7
                 /\ pc.hook \in dynamicHooks /\ pc.hook \notin staticHooks
           /\ ~IsSome(request.fees) => f = defaultFees
           /\ IsSome(request.fees) => f = Get(request.fees)

\* C11 witness: the payload of a static 100 / 200 bps request.
C11_Witness ==
    /\ IsSome(payload)
    /\ IsSome(request.fees)
    /\ Get(request.fees).type = "static"
    /\ feeBlockOf(Get(payload).poolConfig.poolData).args = << 10000, 20000 >>

\* C12: poolData is the fee block wrapped with the pool extension's address and
\* init data exactly when the target has a second-generation hook for the active
\* fee variant, and the hook is then that second-generation hook; otherwise
\* poolData is the bare fee block and the hook is the first-generation hook.
C12_SecondGenerationWrapping ==
    IsSome(payload) =>
        LET f == Get(cfg).fees
            pc == Get(payload).poolConfig
            v2 == IF f.type = "static" THEN target.related.feeStaticHookV2
                  ELSE target.related.feeDynamicHookV2
            v1 == IF f.type = "static" THEN target.related.feeStaticHook
                  ELSE target.related.feeDynamicHook
            wrapped == pc.poolData.abi = "Clanker_PoolInitializationData_v4_1_abi"
        IN /\ wrapped <=> v2 # Undefined
           /\ wrapped =>
                 /\ pc.hook = v2
                 /\ Len(pc.poolData.args) = 1
                 /\ pc.poolData.args[1].extension = request.poolExtension.address
                 /\ pc.poolData.args[1].extensionData = request.poolExtension.initData
                 /\ pc.poolData.args[1].feeData.abi \in
                        {"ClankerHook_StaticFee_Instantiation_v4_abi",
                         "ClankerHook_DynamicFee_Instantiation_v4_abi"}
           /\ ~wrapped =>
                 /\ pc.hook = v1
                 /\ pc.poolData.abi \in {"ClankerHook_StaticFee_Instantiation_v4_abi",
                                         "ClankerHook_DynamicFee_Instantiation_v4_abi"}

\* C12 witness: a dynamic-fee payload for a target with the second-generation
\* dynamic hook and a custom pool extension.
C12_Witness ==
    /\ IsSome(payload)
    /\ Get(cfg).fees.type = "dynamic"
    /\ Get(payload).poolConfig.hook = "feeDynamicHookV2"
    /\ Get(payload).poolConfig.poolData.abi = "Clanker_PoolInitializationData_v4_1_abi"
    /\ Get(payload).poolConfig.poolData.args[1].extension = "0xE7"

\* C13: the payload's native value is the devBuy purchase value when a devBuy is
\* requested and zero otherwise; the devBuy entry has extensionBps 0 and msgValue
\* equal to the payload value; the vault and airdrop entries have msgValue 0.
C13_NativeValue ==
    IsSome(payload) =>
        LET exts == Get(payload).extensionConfigs IN
        /\ IsSome(request.devBuy) =>
              Get(payload).value = Get(request.devBuy).ethAmount * WeiPerToken
        /\ ~IsSome(request.devBuy) => Get(payload).value = 0
        /\ \A i \in 1..Len(exts) :
              /\ extensionRank(exts[i]) = 3 =>
                    exts[i].extensionBps = 0 /\ exts[i].msgValue = Get(payload).value
              /\ extensionRank(exts[i]) \in {1, 2} => exts[i].msgValue = 0

\* C13 witness: a payload with a vault and a devBuy of non-zero value.
C13_Witness ==
    /\ IsSome(payload)
    /\ IsSome(request.devBuy) /\ IsSome(request.vault)
    /\ Get(payload).value = 2 * WeiPerToken
    /\ Len(Get(payload).extensionConfigs) = 2

\* C14: the vault entry is in the payload iff the request supplies a vault; its
\* extensionBps is percentage*100, at most 9,000; its data holds the recipient
\* (the token admin when none is given), the lockup and the vesting duration.
C14_VaultExtension ==
    IsSome(payload) =>
        LET exts == Get(payload).extensionConfigs
            vaults == {i \in 1..Len(exts) : exts[i].extension = target.related.vault}
        IN /\ (vaults # {}) <=> IsSome(request.vault)
           /\ \A i \in vaults :
                 LET v == Get(request.vault) IN
                 /\ exts[i].extensionBps = v.percentage * 100
                 /\ exts[i].extensionBps <= 9000
                 /\ exts[i].extensionData.abi = "ClankerVault_Instantiation_v4_abi"
                 /\ exts[i].extensionData.args =
                        << IF v.recipient = Undefined THEN request.tokenAdmin ELSE v.recipient,
                           v.lockupDuration, v.vestingDuration >>

\* C14 witness: a 90% vault without a recipient, locked for the token admin.
C14_Witness ==
    /\ IsSome(payload)
    /\ IsSome(request.vault)
    /\ Get(request.vault).percentage = 90
    /\ Get(payload).extensionConfigs[1].extensionBps = 9000
    /\ Get(payload).extensionConfigs[1].extensionData.args[1] = request.tokenAdmin

\* C15: the airdrop entry is in the payload iff the request supplies an airdrop;
\* its extensionBps is the share computed for the requested amount; its data
\* holds the admin (the token admin when none is given), the merkle root, the
\* lockup and the vesting duration.
C15_AirdropExtension ==
    IsSome(payload) =>
        LET exts == Get(payload).extensionConfigs
            airdrops == {i \in 1..Len(exts) : exts[i].extension = target.related.airdrop}
        IN /\ (airdrops # {}) <=> IsSome(request.airdrop)
           /\ \A i \in airdrops :
                 LET a == Get(request.airdrop)
                     A == a.amount * WeiPerToken
                 IN /\ exts[i].extensionBps = airdropLocals.bpsAirdropped
                    /\ exts[i].extensionBps * DEFAULT_SUPPLY >= A * BPS
                    /\ (exts[i].extensionBps - 1) * DEFAULT_SUPPLY < A * BPS
                    /\ exts[i].extensionData.abi = "ClankerAirdropV2_Instantiation_v4_abi"
                    /\ exts[i].extensionData.args =
                           << IF a.admin = Undefined THEN request.tokenAdmin ELSE a.admin,
                              a.merkleRoot, a.lockupDuration, a.vestingDuration >>

\* C15 witness: an airdrop with its own admin.
C15_Witness ==
    /\ IsSome(payload)
    /\ IsSome(request.airdrop)
    /\ Get(request.airdrop).admin = "0xD4"
    /\ \E i \in 1..Len(Get(payload).extensionConfigs) :
          /\ Get(payload).extensionConfigs[i].extension = target.related.airdrop
          /\ Get(payload).extensionConfigs[i].extensionData.args[1] = "0xD4"

\* The request asks for a devBuy over the given route.
devBuyRoute(route) == IsSome(request.devBuy) /\ Get(request.devBuy).poolType = route

\* C16: a devBuy over the legacy V3 route on a target without a devbuyV3 module
\* makes payload assembly fail with an error and no payload; on a target with the
\* module the devBuy entry targets devbuyV3, and over the V4 route it targets the
\* devbuy module.
C16_LegacyDevBuyRoute ==
    /\ (assembled /\ devBuyRoute("v3") /\ target.related.devbuyV3 = Undefined) =>
          /\ cpc = "thrown"
          /\ convError = "V3 devBuy extension is not deployed on this chain"
          /\ payload = None
    /\ (IsSome(payload) /\ devBuyRoute("v3")) =>
          LET exts == Get(payload).extensionConfigs IN
          /\ target.related.devbuyV3 # Undefined
          /\ exts[Len(exts)].extension = target.related.devbuyV3
    /\ (IsSome(payload) /\ devBuyRoute("v4")) =>
          LET exts == Get(payload).extensionConfigs IN
          exts[Len(exts)].extension = target.related.devbuy

\* C16 witness: assembly failed for a V3 devBuy on a target without the module.
C16_Witness ==
    /\ devBuyRoute("v3")
    /\ target.hasRelated /\ target.related.devbuyV3 = Undefined
    /\ cpc = "thrown"
    /\ convError = "V3 devBuy extension is not deployed on this chain"

\* C17: without vanity the oracle is never queried, the salt is the zero hash and
\* expectedAddress is unset; with vanity the oracle is queried once and the
\* payload's salt and expectedAddress are the pair the oracle answered.
C17_VanitySalt ==
    /\ ~request.vanity =>
          /\ oracleQueries = 0
          /\ IsSome(payload) =>
                /\ Get(payload).tokenConfig.salt = zeroHash
                /\ Get(payload).expectedAddress = Undefined
    /\ request.vanity =>
          /\ oracleQueries <= 1
          /\ cpc \in {"vanity", "assemble", "returned"} => oracleQueries = 1
          /\ IsSome(payload) =>
                \E r \in OracleAnswers :
                    /\ Get(payload).tokenConfig.salt = r.salt
                    /\ Get(payload).expectedAddress = r.address

\* C17 witness: a vanity payload carrying the oracle's second answer.
C17_Witness ==
    /\ IsSome(payload)
    /\ request.vanity
    /\ oracleQueries = 1
    /\ Get(payload).tokenConfig.salt = "0xsalt2"
    /\ Get(payload).expectedAddress = "0x02..4b07"

\* t is an integer multiple of s.
isMultipleOf(t, s) ==
    IF s = 0 THEN t = 0
    ELSE LET at == IF t < 0 THEN -t ELSE t
             as == IF s < 0 THEN -s ELSE s
         IN (at \div as) * as = at

\* C24: in every request the schema accepts, some position's tickLower is the
\* pool's tickIfToken0IsClanker and every tickLower and tickUpper is an integer
\* multiple of tickSpacing (the same holds of the payload's pool and locker
\* configuration); a request that violates either condition fails validation.
C24_StartingTickAndSpacing ==
    LET v == request.pool
        touching == \E i \in 1..Len(v.positions) :
                        v.positions[i].tickLower = v.tickIfToken0IsClanker
        aligned == \A i \in 1..Len(v.positions) :
                        /\ isMultipleOf(v.positions[i].tickLower, v.tickSpacing)
                        /\ isMultipleOf(v.positions[i].tickUpper, v.tickSpacing)
    IN /\ (parsed /\ ~rejectedBySchema) => (touching /\ aligned)
       /\ (parsed /\ ~(touching /\ aligned)) => rejectedBySchema
       /\ IsSome(payload) =>
              LET p == Get(payload) IN
              /\ \E i \in 1..Len(p.lockerConfig.tickLower) :
                     p.lockerConfig.tickLower[i] = p.poolConfig.tickIfToken0IsClanker
              /\ \A i \in 1..Len(p.lockerConfig.tickLower) :
                     /\ isMultipleOf(p.lockerConfig.tickLower[i], p.poolConfig.tickSpacing)
                     /\ isMultipleOf(p.lockerConfig.tickUpper[i], p.poolConfig.tickSpacing)

\* C24 witness: an accepted request with a spacing of 60 whose second position
\* is the one that touches the starting tick.
C24_Witness ==
    /\ cpc = "returned" /\ IsSome(payload)
    /\ request.pool.tickSpacing = 60
    /\ Len(request.pool.positions) = 2
    /\ request.pool.positions[1].tickLower = 0
    /\ request.pool.positions[2].tickLower = -230400
    /\ Get(payload).lockerConfig.tickLower = << 0, -230400 >>
    /\ Get(payload).poolConfig.tickSpacing = 60

\* C25: the sniper fees of every accepted request (the defaults when omitted)
\* have endingFee < startingFee, both within [30,000, 800,000], and
\* secondsToDecay within [1, 120]; a request outside these fails validation.
\* The payload carries them, ABI-encoded, in mevModuleData together with the
\* second-generation MEV module's address when the target has that module, and
\* otherwise carries empty mevModuleData and the first-generation module's address.
C25_SniperFees ==
    LET inRange(v) ==
            /\ v.endingFee < v.startingFee
            /\ v.startingFee \in 30000..800000
            /\ v.endingFee \in 30000..800000
            /\ v.secondsToDecay \in 1..120
    IN /\ IsSome(cfg) => inRange(Get(cfg).sniperFees)
       /\ (IsSome(cfg) /\ IsSome(request.sniperFees)) =>
              Get(cfg).sniperFees = Get(request.sniperFees)
       /\ (parsed /\ IsSome(request.sniperFees) /\ ~inRange(Get(request.sniperFees))) =>
              rejectedBySchema
       /\ IsSome(payload) =>
              LET m == Get(payload).mevModuleConfig
                  sf == Get(cfg).sniperFees
              IN IF target.related.mevModuleV2 # Undefined
                 THEN /\ m.mevModule = target.related.mevModuleV2
                      /\ IsSome(m.mevModuleData)
                      /\ Get(m.mevModuleData).abi =
                             "Clanker_MevSniperAuction_InitData_v4_1_abi"
                      /\ Get(m.mevModuleData).args =
                             << [startingFee |-> sf.startingFee, endingFee |-> sf.endingFee,
                                 secondsToDecay |-> sf.secondsToDecay] >>
                 ELSE /\ m.mevModule = target.related.mevModule
                      /\ m.mevModuleData = None

\* C25 witness: the extreme sniper fees accepted and encoded for a target with
\* the second-generation MEV module.
C25_Witness ==
    /\ IsSome(payload)
    /\ request.sniperFees = Some([startingFee |-> 800000, endingFee |-> 30000,
                                  secondsToDecay |-> 1])
    /\ target.related.mevModuleV2 = "mevModuleV2"
    /\ Get(payload).mevModuleConfig.mevModule = "mevModuleV2"
    /\ Get(Get(payload).mevModuleConfig.mevModuleData).args[1].startingFee = 800000

\* C27: the extensionBps of the extensions of a payload (vault, airdrop and
\* devBuy together) sum to at most 10,000.
C27_CombinedExtensionBps ==
    IsSome(payload) =>
        reduceAdd(Map(Get(payload).extensionConfigs, LAMBDA e : e.extensionBps), 0) <= BPS

\* C28: for every request with an airdrop that the schema accepts, the converter
\* gets past both precision checks, the share it computes lies within
\* [25, 9000] basis points, and that share is the airdrop extension's
\* extensionBps.
C28_AcceptedAirdropNeverFailsPrecision ==
    /\ convError \notin {"Precision error for airdrop: too low",
                         "Precision error for airdrop: too large"}
    /\ (assembled /\ IsSome(request.airdrop)) =>
          /\ ~roundedAirdropTooLow(airdropLocals.airdropAmount,
                                   airdropLocals.roundingVerificationAirdrop)
          /\ ~roundedAirdropTooHigh(airdropLocals.airdropAmount,
                                    airdropLocals.roundingVerificationAirdrop)
          /\ airdropLocals.bpsAirdropped >= 25
          /\ airdropLocals.bpsAirdropped <= 9000
    /\ (IsSome(payload) /\ IsSome(request.airdrop)) =>
          \E i \in 1..Len(Get(payload).extensionConfigs) :
              LET e == Get(payload).extensionConfigs[i] IN
              /\ e.extension = target.related.airdrop
              /\ e.extensionBps = airdropLocals.bpsAirdropped
              /\ e.extensionBps \in 25..9000

\* C28 witness: the largest accepted amount, one token above a whole number of
\* basis points short of it, converted with a share rounded up to 9,000 bps.
C28_Witness ==
    /\ cpc = "returned" /\ IsSome(payload)
    /\ IsSome(request.airdrop)
    /\ Get(request.airdrop).amount = airdropAmountMax - 1
    /\ (airdropLocals.airdropAmount * BPS) % DEFAULT_SUPPLY # 0
    /\ airdropLocals.bpsAirdropped = 9000

-----------------------------------------------------------------------------
(* utils/errors.ts: ClankerError and understandError *)

\* A thrown value is its cause chain, outermost first.  A node is
\*   NonError  a thrown value that is not an Error (it has no cause),
\*   Error     an Error that is not a viem BaseError,
\*   BaseError a viem error of another class (HTTP, timeout, execution wrapper),
\*   Revert    a ContractFunctionRevertedError, with data?.errorName and signature,
\*   Funds     an InsufficientFundsError.
node(kind, errorName, signature) ==
    [kind |-> kind, errorName |-> errorName, signature |-> signature]

plainNode(kind) == node(kind, Undefined, Undefined)

isError(n) == n.kind # "NonError"
isBaseError(n) == n.kind \in {"BaseError", "Revert", "Funds"}
isContractFunctionRevertedError(n) == n.kind = "Revert"
isInsufficientFundsError(n) == n.kind = "Funds"

\* BaseError.walk(fn): the position of the first error of the chain that satisfies
\* fn, following cause; 0 (null) when none does.
walk(e, fn(_)) ==
    LET hits == {i \in 1..Len(e) : fn(e[i])}
    IN  IF hits = {} THEN 0 ELSE CHOOSE i \in hits : \A j \in hits : i <= j

\* Lines 31-42.
SignatureToError ==
    [sig \in {"0x7e5ba1ad", "0x8b063d73"} |->
        IF sig = "0x7e5ba1ad"
        THEN [type |-> "state", label |-> "Hook not enabled.", rawName |-> "HookNotEnabled"]
        ELSE [type |-> "state", label |-> "Too little received (likely dev buy).",
              rawName |-> "V4TooLittleReceived"]]

\* Lines 44-60.
ErrorMapping ==
    [name \in {"NoFeesToClaim", "InvalidVaultConfiguration", "BaseFeeTooLow"} |->
        IF name = "NoFeesToClaim"
        THEN [type |-> "state", label |-> "No fees to claim", rawName |-> "NoFeesToClaim"]
        ELSE IF name = "InvalidVaultConfiguration"
        THEN [type |-> "caller", label |-> "Invalid vault configuration",
              rawName |-> "InvalidVault"]
        ELSE [type |-> "caller", label |-> "Base fee is set too low",
              rawName |-> "BaseFeeTooLow"]]

\* new ClankerError(error, data).
ClankerError(error, data) == [error |-> error, data |-> data]

\* ClankerError.unknown(e, name): rawName is name || 'unknown'.
unknownError(e, name) ==
    ClankerError(e, [type |-> "unknown", label |-> "Something went wrong",
                     rawName |-> IF name # "" THEN name ELSE "unknown"])

\* Mutant of classifyRevert: the selector table is consulted before the name table.
classifyRevertSelectorFirst(e, revertError) ==
    LET errorName == IF revertError.errorName # Undefined THEN revertError.errorName ELSE ""
        signature == IF revertError.signature # Undefined THEN revertError.signature ELSE "0x"
    IN  IF signature \in DOMAIN SignatureToError THEN ClankerError(e, SignatureToError[signature])
        ELSE IF errorName \in DOMAIN ErrorMapping THEN ClankerError(e, ErrorMapping[errorName])
        ELSE unknownError(e, errorName)

\* Lines 78-88: the revert branch.
classifyRevert(e, revertError) ==
    LET errorName == IF revertError.errorName # Undefined THEN revertError.errorName ELSE ""
        signature == IF revertError.signature # Undefined THEN revertError.signature ELSE "0x"
    IN  IF errorName \in DOMAIN ErrorMapping THEN ClankerError(e, ErrorMapping[errorName])
        ELSE IF signature \in DOMAIN SignatureToError
        THEN ClankerError(e, SignatureToError[signature])
        ELSE unknownError(e, errorName)

insufficientFundsData ==
    [type |-> "caller", label |-> "Insufficient funds.", rawName |-> "InsufficientFundsError"]

\* Mutant of understandError: the insufficient-funds walk runs before the revert walk.
understandErrorFundsFirst(e) ==
    IF ~isError(e[1]) THEN unknownError(<< plainNode("Error") >>, "")
    ELSE IF ~isBaseError(e[1]) THEN unknownError(e, "")
    ELSE LET revertAt == walk(e, isContractFunctionRevertedError)
             fundsAt == walk(e, isInsufficientFundsError)
         IN  IF fundsAt # 0
             THEN ClankerError(SubSeq(e, fundsAt, Len(e)), insufficientFundsData)
             ELSE IF revertAt # 0 THEN classifyRevert(e, e[revertAt])
             ELSE unknownError(e, "")

\* Lines 73-100.  A non-Error is wrapped in a new Error.
understandError(e) ==
    IF ~isError(e[1]) THEN unknownError(<< plainNode("Error") >>, "")
    ELSE IF ~isBaseError(e[1]) THEN unknownError(e, "")
    ELSE LET revertAt == walk(e, isContractFunctionRevertedError)
             fundsAt == walk(e, isInsufficientFundsError)
         IN  IF revertAt # 0 THEN classifyRevert(e, e[revertAt])
             ELSE IF fundsAt # 0
             THEN ClankerError(SubSeq(e, fundsAt, Len(e)), insufficientFundsData)
             ELSE unknownError(e, "")

\* Longest cause chain of a thrown value.
MaxCauses == 2

RevertNodes ==
    {node("Revert", n, g) :
        n \in {"NoFeesToClaim", "InvalidVaultConfiguration", "BaseFeeTooLow",
               "SomeOtherError", Undefined},
        g \in {"0x7e5ba1ad", "0x8b063d73", "0xdeadbeef", Undefined}}

ErrNodes == RevertNodes \cup {plainNode(k) : k \in {"NonError", "Error", "BaseError", "Funds"}}

\* Every chain of at most MaxCauses nodes; only the last node may be a non-Error.
Failures ==
    {e \in SeqsUpTo(ErrNodes, MaxCauses) :
        /\ Len(e) >= 1
        /\ \A i \in 1..(Len(e) - 1) : isError(e[i])}

ErrInit ==
    /\ failure \in Failures
    /\ classified = None
    /\ request = baseRequest /\ target = fullTarget /\ cpc = "start" /\ cfg = None
    /\ vanityRes = noVanity /\ oracleQueries = 0 /\ airdropLocals = noLocals
    /\ payload = None /\ convError = ""
    /\ DeployIdle

\* understandError(e) is applied to the thrown value.
Classify ==
    /\ classified = None
    /\ classified' = Some(understandError(failure))
    /\ UNCHANGED <<failure, convVars, deployVars, waitVars, v3Vars>>

ErrNext == Classify

SpecError == ErrInit /\ [][ErrNext]_vars

-----------------------------------------------------------------------------
(* Claims about understandError, checked under SpecError *)

\* The thrown value is a chain-client (viem) error, so its chain is walked.
walked == isBaseError(failure[1])
hasRevert == \E i \in 1..Len(failure) : failure[i].kind = "Revert"
hasFunds == \E i \in 1..Len(failure) : failure[i].kind = "Funds"

\* The outermost contract revert of the chain.
firstRevert ==
    failure[CHOOSE i \in 1..Len(failure) :
                /\ failure[i].kind = "Revert"
                /\ \A j \in 1..(i - 1) : failure[j].kind # "Revert"]

\* C8: a contract revert is classified by its error name in the name table
\* (NoFeesToClaim: state, "No fees to claim"), otherwise by its four-byte selector
\* in the selector table (0x7e5ba1ad: state, "Hook not enabled."), otherwise as
\* unknown with the decoded error name kept as rawName.
C8_RevertLookupOrder ==
    (IsSome(classified) /\ walked /\ hasRevert) =>
        LET r == firstRevert
            d == Get(classified).data
            named == r.errorName \in {"NoFeesToClaim", "InvalidVaultConfiguration",
                                      "BaseFeeTooLow"}
            selected == r.signature \in {"0x7e5ba1ad", "0x8b063d73"}
        IN /\ r.errorName = "NoFeesToClaim" =>
                 d.type = "state" /\ d.label = "No fees to claim"
           /\ named => d = ErrorMapping[r.errorName]
           /\ (~named /\ r.signature = "0x7e5ba1ad") =>
                 d.type = "state" /\ d.label = "Hook not enabled."
           /\ (~named /\ selected) => d = SignatureToError[r.signature]
           /\ (~named /\ ~selected) =>
                 /\ d.type = "unknown"
                 /\ r.errorName # Undefined => d.rawName = r.errorName

\* C8 witness: a revert that both tables know, classified by its name.
C8_Witness ==
    /\ IsSome(classified) /\ walked /\ hasRevert
    /\ firstRevert.errorName = "NoFeesToClaim"
    /\ firstRevert.signature = "0x7e5ba1ad"
    /\ Get(classified).data.label = "No fees to claim"

\* C9: with no contract revert in the chain, understandError returns caller /
\* "Insufficient funds." when the chain of a chain-client error holds an
\* insufficient-funds error and unknown for every other failure, non-Error values
\* and errors that are not chain-client errors included; a revert in the chain
\* takes precedence over an insufficient-funds error.
C9_FundsThenUnknown ==
    IsSome(classified) =>
        LET d == Get(classified).data IN
        /\ ~isError(failure[1]) => d.type = "unknown"
        /\ (isError(failure[1]) /\ ~walked) => d.type = "unknown"
        /\ (walked /\ ~hasRevert /\ hasFunds) =>
              d.type = "caller" /\ d.label = "Insufficient funds."
        /\ (walked /\ ~hasRevert /\ ~hasFunds) => d.type = "unknown"
        /\ (walked /\ hasRevert /\ hasFunds) => d.label # "Insufficient funds."

\* C9 witness: a chain-client error caused by an insufficient-funds error, with no
\* revert, classified as caller.
C9_Witness ==
    /\ IsSome(classified)
    /\ walked /\ ~hasRevert /\ hasFunds
    /\ failure[1].kind = "BaseError"
    /\ Get(classified).data.type = "caller"

-----------------------------------------------------------------------------
(* utils/write-clanker-contracts.ts and deployment/deploy.ts *)

\* What a chain-client action does: it resolves with a value or throws a failure.
resolved(v) == [ok |-> TRUE, value |-> v, failure |-> <<>>]
rejected(e) == [ok |-> FALSE, value |-> Undefined, failure |-> e]
rejectedGas(e) == [ok |-> FALSE, value |-> 0, failure |-> e]

\* Failures a chain-client action throws: a timeout or transport error, an
\* execution error caused by a revert, one caused by insufficient funds, a plain
\* Error and a thrown non-Error value.
ClientFailures ==
    { << plainNode("BaseError") >>,
      << plainNode("BaseError"), node("Revert", "NoFeesToClaim", "0x7e5ba1ad") >>,
      << plainNode("BaseError"), plainNode("Funds") >>,
      << plainNode("Error") >>,
      << plainNode("NonError") >> }

GasOutcomes == {resolved(g) : g \in {1, 5, 21000, 100001}} \cup {rejectedGas(e) : e \in ClientFailures}
SimulateOutcomes == {resolved("0xtoken")} \cup {rejected(e) : e \in ClientFailures}
WriteOutcomes == {resolved(h) : h \in {"0xhash1", "0xhash2"}} \cup {rejected(e) : e \in ClientFailures}

\* Mutant of estimateGasClankerContract: the catch block swallows the failure.
estimateGasSwallowsFailure(outcome) ==
    IF outcome.ok THEN [gas |-> Some(outcome.value), error |-> None]
    ELSE [gas |-> None, error |-> None]

\* estimateGasClankerContract (lines 53-73): { gas } or { error: understandError(e) }.
estimateGasClankerContract(outcome) ==
    IF outcome.ok THEN [gas |-> Some(outcome.value), error |-> None]
    ELSE [gas |-> None, error |-> Some(understandError(outcome.failure))]

\* simulateClankerContract (lines 83-103): viem's { result, request } or { error }.
simulateClankerContract(outcome) ==
    IF outcome.ok
    THEN [result |-> Some(outcome.value), request |-> Some("request"), error |-> None]
    ELSE [result |-> None, request |-> None, error |-> Some(understandError(outcome.failure))]

\* Mutant of simulationFailed: the simulation's error is ignored.
simulationNeverFails(sim) == FALSE

\* writeClankerContract, lines 127-130: const { error } = await simulate...; if (error).
simulationFailed(sim) == IsSome(sim.error)

\* writeClankerContract, line 129: return { error }.
writeResultOfSimulation(sim) == [txHash |-> None, error |-> sim.error]

\* writeClankerContract, lines 133-139: { txHash } or { error: understandError(e) }.
writeResultOfSubmission(outcome) ==
    IF outcome.ok THEN [txHash |-> Some(outcome.value), error |-> None]
    ELSE [txHash |-> None, error |-> Some(understandError(outcome.failure))]

\* Mutant of bufferedGas: the estimate is submitted as it is.
unbufferedGas(gas) == gas

\* Mutant of gasEstimationFailed: deployToken goes on after a failed estimation.
gasEstimationNeverFails(est) == FALSE

\* deployToken, line 67: if (gasError) return { error: gasError }.
gasEstimationFailed(est) == IsSome(est.error)

\* deployToken, line 74: the gas limit submitted, (gas * 12n) / 10n.
bufferedGas(gas) == (gas * 12) \div 10

\* deployToken, lines 67 and 80: return { error }.
deployTokenError(error) == [txHash |-> None, waitForTransaction |-> None, error |-> error]

\* deployToken, lines 82-103: return { txHash, waitForTransaction }.
deployTokenSubmitted(txHash) ==
    [txHash |-> txHash, waitForTransaction |-> Some("waitForTransaction"), error |-> None]

\* The log of chain-client actions.
invoke(log, action) == Append(log, [action |-> action, outcome |-> "pending"])
settle(log, outcome) ==
    [log EXCEPT ![Len(log)].outcome = IF outcome.ok THEN "resolved" ELSE "rejected"]

ChainIds == {8453, 42161}

DeployInit ==
    /\ \/ /\ op = "deployToken"
          /\ simulate = FALSE
          /\ walletAccount \in BOOLEAN
          /\ tx \in [chainId : ChainIds, gas : {None}]
          /\ clientChainId \in ChainIds
          /\ walletChainId \in ChainIds
       \/ /\ op = "simulateDeployToken"
          /\ simulate = FALSE
          /\ walletAccount = TRUE
          /\ tx \in [chainId : ChainIds, gas : {None}]
          /\ clientChainId \in ChainIds
          /\ walletChainId = clientChainId
       \/ /\ op = "writeClankerContract"
          /\ simulate \in BOOLEAN
          /\ walletAccount = TRUE
          /\ tx = [chainId |-> 8453, gas |-> None]
          /\ clientChainId = 8453
          /\ walletChainId = 8453
    /\ clients = bothClients
    /\ dpc = "start"
    /\ calls = <<>>
    /\ gasRes = None /\ simRes = None /\ writeRes = None /\ opRes = None
    /\ opThrown = ""
    /\ request = baseRequest /\ target = fullTarget /\ cpc = "start" /\ cfg = None
    /\ vanityRes = noVanity /\ oracleQueries = 0 /\ airdropLocals = noLocals
    /\ payload = None /\ convError = ""
    /\ ErrIdle
    /\ WaitIdle
    /\ V3Idle

\* Mutant of deployTokenUsageError: the wallet's chain is not compared.
deployTokenUsageErrorNoWalletChain(account, txChainId, publicChainId, wChainId) ==
    IF ~account THEN "Wallet account required for deployToken"
    ELSE IF txChainId # publicChainId
    THEN "Token chainId doesn't match public client chainId"
    ELSE ""

\* deployToken, lines 52-63: the error of the first usage check that fails, "" if none.
deployTokenUsageError(account, txChainId, publicChainId, wChainId) ==
    IF ~account THEN "Wallet account required for deployToken"
    ELSE IF txChainId # publicChainId
    THEN "Token chainId doesn't match public client chainId"
    ELSE IF txChainId # wChainId
    THEN "Token chainId doesn't match wallet chainId"
    ELSE ""

\* simulateDeployToken, lines 37-39.
simulateDeployTokenUsageError(txChainId, publicChainId) ==
    IF txChainId # publicChainId
    THEN "Token chainId doesn't match public client chainId"
    ELSE ""

\* deployToken, lines 52-66: the three usage checks, then the gas estimation is sent.
DeployTokenCall ==
    /\ op = "deployToken" /\ dpc = "start"
    /\ LET usage == deployTokenUsageError(walletAccount, tx.chainId, clientChainId,
                                          walletChainId)
       IN IF usage # "" THEN
              /\ dpc' = "thrown"
              /\ opThrown' = usage
              /\ UNCHANGED calls
          ELSE
              /\ dpc' = "estimating"
              /\ calls' = invoke(calls, "estimateContractGas")
              /\ UNCHANGED opThrown
    /\ UNCHANGED <<op, simulate, clients, tx, walletAccount, clientChainId, walletChainId,
                   gasRes, simRes, writeRes, opRes>>
    /\ UNCHANGED <<convVars, errVars, waitVars, v3Vars>>

\* simulateDeployToken (lines 32-42): the chain check, then the simulation is sent.
SimulateDeployTokenCall ==
    /\ op = "simulateDeployToken" /\ dpc = "start"
    /\ LET usage == simulateDeployTokenUsageError(tx.chainId, clientChainId)
       IN IF usage # "" THEN
              /\ dpc' = "thrown"
              /\ opThrown' = usage
              /\ UNCHANGED calls
          ELSE
              /\ dpc' = "simulating"
              /\ calls' = invoke(calls, "simulateContract")
              /\ UNCHANGED opThrown
    /\ UNCHANGED <<op, simulate, clients, tx, walletAccount, clientChainId, walletChainId,
                   gasRes, simRes, writeRes, opRes>>
    /\ UNCHANGED <<convVars, errVars, waitVars, v3Vars>>

\* writeClankerContract called directly (claimRewards, updateRewardRecipient, ...):
\* lines 126-135 up to the first await.
WriteClankerContractCall ==
    /\ op = "writeClankerContract" /\ dpc = "start"
    /\ IF simulate
       THEN /\ dpc' = "simulating"
            /\ calls' = invoke(calls, "simulateContract")
       ELSE /\ dpc' = "writing"
            /\ calls' = invoke(calls, "writeContract")
    /\ UNCHANGED <<op, simulate, clients, tx, walletAccount, clientChainId, walletChainId,
                   gasRes, simRes, writeRes, opRes, opThrown>>
    /\ UNCHANGED <<convVars, errVars, waitVars, v3Vars>>

\* estimateContractGas settles; deployToken (lines 66-79) returns the error or
\* calls writeClankerContract with the buffered gas and simulate: true, which
\* sends the simulation.
EstimateGasSettles ==
    /\ dpc = "estimating"
    /\ \E outcome \in GasOutcomes :
         LET est == estimateGasClankerContract(outcome) IN
         /\ gasRes' = Some(est)
         /\ IF gasEstimationFailed(est) THEN
                /\ opRes' = Some(deployTokenError(est.error))
                /\ dpc' = "done"
                /\ calls' = settle(calls, outcome)
                /\ UNCHANGED <<tx, simulate>>
            ELSE
                /\ tx' = [tx EXCEPT !.gas = IF IsSome(est.gas) THEN Some(bufferedGas(Get(est.gas)))
                                            ELSE None]
                /\ simulate' = TRUE
                /\ dpc' = "simulating"
                /\ calls' = invoke(settle(calls, outcome), "simulateContract")
                /\ UNCHANGED opRes
    /\ UNCHANGED <<op, clients, walletAccount, clientChainId, walletChainId, simRes, writeRes, opThrown>>
    /\ UNCHANGED <<convVars, errVars, waitVars, v3Vars>>

\* simulateContract settles.  simulateDeployToken returns the wrapper's result;
\* writeClankerContract (lines 127-135) returns the error or sends the transaction.
SimulateSettles ==
    /\ dpc = "simulating"
    /\ \E outcome \in SimulateOutcomes :
         LET sim == simulateClankerContract(outcome) IN
         /\ simRes' = Some(sim)
         /\ IF op = "simulateDeployToken" THEN
                /\ opRes' = Some(sim)
                /\ dpc' = "done"
                /\ calls' = settle(calls, outcome)
                /\ UNCHANGED writeRes
            ELSE IF simulationFailed(sim) THEN
                /\ writeRes' = Some(writeResultOfSimulation(sim))
                /\ opRes' = Some(IF op = "deployToken" THEN deployTokenError(sim.error)
                                 ELSE writeResultOfSimulation(sim))
                /\ dpc' = "done"
                /\ calls' = settle(calls, outcome)
            ELSE
                /\ dpc' = "writing"
                /\ calls' = invoke(settle(calls, outcome), "writeContract")
                /\ UNCHANGED <<writeRes, opRes>>
    /\ UNCHANGED <<op, simulate, clients, tx, walletAccount, clientChainId, walletChainId,
                   gasRes, opThrown>>
    /\ UNCHANGED <<convVars, errVars, waitVars, v3Vars>>

\* writeContract settles; writeClankerContract returns (lines 133-139) and
\* deployToken returns the error or the hash with waitForTransaction (lines 80-103).
WriteSettles ==
    /\ dpc = "writing"
    /\ \E outcome \in WriteOutcomes :
         LET res == writeResultOfSubmission(outcome) IN
         /\ writeRes' = Some(res)
         /\ opRes' = Some(IF op # "deployToken" THEN res
                          ELSE IF IsSome(res.error) THEN deployTokenError(res.error)
                          ELSE deployTokenSubmitted(res.txHash))
         /\ calls' = settle(calls, outcome)
    /\ dpc' = "done"
    /\ UNCHANGED <<op, simulate, clients, tx, walletAccount, clientChainId, walletChainId,
                   gasRes, simRes, opThrown>>
    /\ UNCHANGED <<convVars, errVars, waitVars, v3Vars>>

\* The log entries of a transaction receipt: TokenCreated events of the factory
\* and events of other contracts, which carry no tokenAddress.
TokenCreated(tokenAddress) == [eventName |-> "TokenCreated", tokenAddress |-> tokenAddress]
Transfer == [eventName |-> "Transfer", tokenAddress |-> Undefined]

MaxLogs == 2
ReceiptLogs == SeqsUpTo({TokenCreated("0xtokenA"), TokenCreated("0xtokenB"), Transfer}, MaxLogs)

rejectedReceipt(e) == [ok |-> FALSE, value |-> <<>>, failure |-> e]

\* waitForTransactionReceipt resolves with the receipt's logs or throws (a
\* timeout is viem's WaitForTransactionReceiptTimeoutError, a BaseError).
ReceiptOutcomes ==
    {resolved(l) : l \in ReceiptLogs} \cup {rejectedReceipt(e) : e \in ClientFailures}

\* parseEventLogs({ abi, eventName, logs }): the logs of that event, in order.
parseEventLogs(eventName, logs) == SelectSeq(logs, LAMBDA l : l.eventName = eventName)

\* What one invocation of waitForTransaction has come to.
waitPending == [pc |-> "pending", result |-> None, thrown |-> <<>>]
waitReturned(r) == [pc |-> "returned", result |-> Some(r), thrown |-> <<>>]
waitThrew(e) == [pc |-> "thrown", result |-> None, thrown |-> e]

\* Reading .args of logs[0] when there is no log: a TypeError.
TypeError == << plainNode("TypeError") >>

\* Mutant of waitForTransaction: with no matching log the address is undefined.
waitForTransactionUndefinedAddress(outcome) ==
    IF ~outcome.ok THEN waitThrew(outcome.failure)
    ELSE LET logs == parseEventLogs("TokenCreated", outcome.value)
         IN waitReturned([address |-> IF logs = <<>> THEN Some(Undefined)
                                      ELSE Some(logs[1].tokenAddress),
                          error |-> None])

\* waitForTransaction (lines 84-102), from the settled waitForTransactionReceipt
\* on: a rejection of the awaited call rejects the closure (there is no try),
\* otherwise { address: logs[0].args.tokenAddress }.
waitForTransaction(outcome) ==
    IF ~outcome.ok THEN waitThrew(outcome.failure)
    ELSE LET logs == parseEventLogs("TokenCreated", outcome.value)
         IN IF logs = <<>> THEN waitThrew(TypeError)
            ELSE waitReturned([address |-> Some(logs[1].tokenAddress), error |-> None])

\* Mutant of waitForTransactionAction: the closure submits the transaction again.
waitForTransactionSubmits == "writeContract"

\* waitForTransaction, line 85: the one chain-client action the closure invokes.
waitForTransactionAction == "waitForTransactionReceipt"

MaxWaits == 2

\* waitForTransaction is invoked on a result deployToken returned (lines 84-87, up
\* to the await); invocations may overlap.
WaitForTransactionCall ==
    /\ op = "deployToken" /\ dpc = "done"
    /\ IsSome(opRes) /\ IsSome(Get(opRes).waitForTransaction)
    /\ Len(waitCalls) < MaxWaits
    /\ waitCalls' = invoke(waitCalls, waitForTransactionAction)
    /\ waitRes' = Append(waitRes, [receipt |-> None, settled |-> waitPending])
    /\ UNCHANGED <<convVars, errVars, deployVars, v3Vars>>

\* waitForTransactionReceipt of one invocation settles and the closure finishes
\* (lines 88-101).
ReceiptSettles ==
    /\ \E i \in 1..Len(waitCalls) :
         /\ waitCalls[i].outcome = "pending"
         /\ \E outcome \in ReceiptOutcomes :
              /\ waitCalls' = [waitCalls EXCEPT
                                 ![i].outcome = IF outcome.ok THEN "resolved" ELSE "rejected"]
              /\ waitRes' = [waitRes EXCEPT ![i] = [receipt |-> Some(outcome),
                                                    settled |-> waitForTransaction(outcome)]]
    /\ UNCHANGED <<convVars, errVars, deployVars, v3Vars>>

DeployNext ==
    \/ DeployTokenCall
    \/ SimulateDeployTokenCall
    \/ WriteClankerContractCall
    \/ EstimateGasSettles
    \/ SimulateSettles
    \/ WriteSettles
    \/ WaitForTransactionCall
    \/ ReceiptSettles

SpecDeploy == DeployInit /\ [][DeployNext]_vars

-----------------------------------------------------------------------------
(* Claims about the deployment pipeline, checked under SpecDeploy *)

invoked(action) == \E i \in 1..Len(calls) : calls[i].action = action
rejectedCall(action) ==
    \E i \in 1..Len(calls) : calls[i].action = action /\ calls[i].outcome = "rejected"
resolvedCall(action) ==
    \E i \in 1..Len(calls) : calls[i].action = action /\ calls[i].outcome = "resolved"

isClankerError(x) ==
    /\ DOMAIN x = {"error", "data"}
    /\ x.data.type \in {"caller", "state", "unknown"}

\* A result tuple: every success field defined and no error, or a ClankerError
\* and every success field undefined.
successShape(r, fields) == r.error = None /\ \A f \in fields : IsSome(r[f])
errorShape(r, fields) ==
    /\ IsSome(r.error) /\ isClankerError(Get(r.error))
    /\ \A f \in fields : r[f] = None
resultTuple(r, fields) ==
    /\ DOMAIN r = fields \cup {"error"}
    /\ successShape(r, fields) \/ errorShape(r, fields)
    /\ ~(successShape(r, fields) /\ errorShape(r, fields))

\* C5: when the simulation deployToken runs before submitting is rejected,
\* writeContract is never invoked, no transaction hash is produced, and
\* deployToken has returned (not thrown) a result whose error is a ClankerError.
C5_FailedSimulationNeverSubmits ==
    (op = "deployToken" /\ rejectedCall("simulateContract")) =>
        /\ ~invoked("writeContract")
        /\ dpc = "done" /\ opThrown = ""
        /\ IsSome(opRes)
        /\ Get(opRes).txHash = None
        /\ IsSome(Get(opRes).error) /\ isClankerError(Get(Get(opRes).error))
        /\ Get(opRes).error = Get(simRes).error

C5_Witness ==
    /\ op = "deployToken" /\ rejectedCall("simulateContract")
    /\ resolvedCall("estimateContractGas")
    /\ IsSome(opRes) /\ IsSome(Get(opRes).error)
    /\ Get(Get(opRes).error).data.label = "No fees to claim"

\* C6: deployToken invokes gas estimation, simulation and submission in that
\* order, each at most once; the simulation is invoked only after the gas
\* estimation resolved and the submission only after the simulation resolved;
\* when the gas estimation is rejected deployToken returns the classified error
\* and neither the simulation nor the submission is invoked.
C6_EstimateSimulateSubmit ==
    op = "deployToken" =>
        /\ Len(calls) <= 3
        /\ \A i \in 1..Len(calls) :
              calls[i].action = <<"estimateContractGas", "simulateContract", "writeContract">>[i]
        /\ \A i \in 2..Len(calls) : calls[i - 1].outcome = "resolved"
        /\ rejectedCall("estimateContractGas") =>
              /\ Len(calls) = 1
              /\ dpc = "done" /\ opThrown = ""
              /\ IsSome(opRes) /\ Get(opRes).txHash = None
              /\ IsSome(Get(opRes).error) /\ isClankerError(Get(Get(opRes).error))
              /\ Get(opRes).error = Get(gasRes).error

C6_Witness ==
    /\ op = "deployToken" /\ dpc = "done"
    /\ Len(calls) = 3
    /\ resolvedCall("writeContract")
    /\ tx.gas = Some(120001)

\* C7: whatever the chain-client call does, estimateGasClankerContract,
\* simulateClankerContract, writeClankerContract and deployToken resolve to a
\* result tuple of exactly one of the two shapes, and an operation that threw
\* did so before any chain-client call was made.
C7_ResultTuples ==
    /\ IsSome(gasRes) => resultTuple(Get(gasRes), {"gas"})
    /\ IsSome(simRes) => resultTuple(Get(simRes), {"result", "request"})
    /\ IsSome(writeRes) => resultTuple(Get(writeRes), {"txHash"})
    /\ (IsSome(opRes) /\ op = "deployToken") =>
          resultTuple(Get(opRes), {"txHash", "waitForTransaction"})
    /\ (IsSome(opRes) /\ op = "writeClankerContract") => resultTuple(Get(opRes), {"txHash"})
    /\ (IsSome(opRes) /\ op = "simulateDeployToken") =>
          resultTuple(Get(opRes), {"result", "request"})
    /\ (dpc = "thrown" \/ opThrown # "") => calls = <<>>
    /\ (calls # <<>> /\ calls[Len(calls)].outcome = "rejected") =>
          /\ dpc = "done"
          /\ IsSome(opRes) /\ IsSome(Get(opRes).error)
    /\ dpc = "done" => IsSome(opRes)

C7_Witness ==
    /\ op = "deployToken" /\ dpc = "done"
    /\ rejectedCall("writeContract")
    /\ IsSome(gasRes) /\ successShape(Get(gasRes), {"gas"})
    /\ IsSome(simRes) /\ successShape(Get(simRes), {"result", "request"})
    /\ IsSome(writeRes) /\ errorShape(Get(writeRes), {"txHash"})
    /\ errorShape(Get(opRes), {"txHash", "waitForTransaction"})

\* C18: deployToken throws, having called neither gas estimation nor simulation
\* nor submission, when the wallet has no account, when the payload's chainId is
\* not the public client's, or when it is not the wallet's; simulateDeployToken
\* throws without simulating when the payload's chainId is not the public client's.
C18_UsageErrorsThrowBeforeAnyCall ==
    /\ (op = "deployToken" /\ dpc # "start"
          /\ (~walletAccount \/ tx.chainId # clientChainId \/ tx.chainId # walletChainId)) =>
          /\ dpc = "thrown" /\ opThrown # ""
          /\ calls = <<>>
          /\ gasRes = None /\ simRes = None /\ writeRes = None /\ opRes = None
    /\ (op = "simulateDeployToken" /\ dpc # "start" /\ tx.chainId # clientChainId) =>
          /\ dpc = "thrown" /\ opThrown # ""
          /\ calls = <<>>
          /\ simRes = None /\ opRes = None

\* C18 witness: deployToken threw for a wallet on another chain than the payload.
C18_Witness ==
    /\ op = "deployToken" /\ dpc = "thrown"
    /\ walletAccount /\ tx.chainId = clientChainId /\ tx.chainId # walletChainId
    /\ opThrown = "Token chainId doesn't match wallet chainId"
    /\ calls = <<>>

\* C20: the gas limit deployToken hands to simulation and submission is
\* floor(estimate * 12 / 10), never below the estimate, on every submission.
C20_GasBuffer ==
    (op = "deployToken" /\ (invoked("simulateContract") \/ invoked("writeContract"))) =>
        /\ IsSome(gasRes) /\ IsSome(Get(gasRes).gas)
        /\ IsSome(tx.gas)
        /\ LET estimate == Get(Get(gasRes).gas)
               limit == Get(tx.gas)
           IN /\ limit * 10 <= estimate * 12
              /\ (limit + 1) * 10 > estimate * 12
              /\ limit >= estimate

\* C20 witness: an estimate of 5 submitted with a limit of 6.
C20_Witness ==
    /\ op = "deployToken"
    /\ resolvedCall("writeContract")
    /\ Get(gasRes).gas = Some(5)
    /\ tx.gas = Some(6)

\* C21: an invocation of waitForTransaction whose receipt arrived returns the
\* tokenAddress of the first TokenCreated log of the receipt; when the receipt
\* holds no TokenCreated log it throws, and no invocation ever returns a result
\* whose address is undefined.
C21_FirstTokenCreatedOrError ==
    \A i \in 1..Len(waitRes) :
        LET w == waitRes[i] IN
        /\ (IsSome(w.receipt) /\ Get(w.receipt).ok) =>
              LET logs == Get(w.receipt).value
                  created == {k \in 1..Len(logs) : logs[k].eventName = "TokenCreated"}
              IN IF created = {}
                 THEN w.settled.pc = "thrown" /\ w.settled.thrown # <<>>
                      /\ w.settled.result = None
                 ELSE LET first == CHOOSE k \in created : \A m \in created : k <= m
                      IN /\ w.settled.pc = "returned"
                         /\ Get(w.settled.result).address = Some(logs[first].tokenAddress)
                         /\ Get(w.settled.result).error = None
        /\ w.settled.pc = "returned" =>
              /\ IsSome(Get(w.settled.result).address)
              /\ Get(Get(w.settled.result).address) # Undefined

\* C21 witness: one invocation threw on a receipt without a TokenCreated log,
\* another returned the address of the TokenCreated log behind a Transfer log.
C21_Witness ==
    /\ \E i \in 1..Len(waitRes) :
         /\ waitRes[i].receipt = Some(resolved(<< Transfer >>))
         /\ waitRes[i].settled = waitThrew(TypeError)
    /\ \E i \in 1..Len(waitRes) :
         /\ waitRes[i].receipt = Some(resolved(<< Transfer, TokenCreated("0xtokenB") >>))
         /\ waitRes[i].settled.pc = "returned"
         /\ Get(waitRes[i].settled.result).address = Some("0xtokenB")

\* C22: deployToken has returned the hash once writeContract resolved, whether or
\* not waitForTransaction was invoked; the invocations of waitForTransaction only
\* wait for the receipt, so that a deployToken that returned a hash has submitted
\* exactly one transaction however many invocations were made, settled or left
\* pending.
C22_OneSubmission ==
    LET submissions(log) ==
            Cardinality({i \in 1..Len(log) : log[i].action = "writeContract"})
    IN /\ (op = "deployToken" /\ resolvedCall("writeContract")) =>
              /\ dpc = "done" /\ IsSome(opRes)
              /\ IsSome(Get(opRes).txHash)
              /\ Get(opRes).txHash = Get(writeRes).txHash
              /\ IsSome(Get(opRes).waitForTransaction)
       /\ (op = "deployToken" /\ IsSome(opRes) /\ IsSome(Get(opRes).txHash)) =>
              submissions(calls) + submissions(waitCalls) = 1
       /\ waitCalls # <<>> =>
              /\ op = "deployToken" /\ IsSome(opRes) /\ IsSome(Get(opRes).txHash)
              /\ \A i \in 1..Len(waitCalls) : waitCalls[i].action = "waitForTransactionReceipt"

\* C22 witness: two invocations on one submitted transaction, one settled and one
\* left pending.
C22_Witness ==
    /\ op = "deployToken" /\ IsSome(opRes) /\ Get(opRes).txHash = Some("0xhash1")
    /\ Len(waitCalls) >= 2
    /\ waitCalls[1].outcome = "pending"
    /\ waitCalls[2].outcome = "resolved"
    /\ Len(calls) = 3

\* The failure of a chain-client call that timed out.
timeout == << plainNode("BaseError") >>

\* C23: a chain-client call of the pipeline that is rejected (a timeout included)
\* ends in a returned result whose error is a ClankerError: for gas estimation,
\* simulation and submission the operation is done without having thrown, and an
\* invocation of waitForTransaction whose receipt wait timed out returns a
\* ClankerError rather than throwing.
C23_TimeoutsAreClassified ==
    /\ (calls # <<>> /\ calls[Len(calls)].outcome = "rejected") =>
          /\ dpc = "done" /\ opThrown = ""
          /\ IsSome(opRes) /\ IsSome(Get(opRes).error)
          /\ isClankerError(Get(Get(opRes).error))
    /\ \A i \in 1..Len(waitRes) :
          (IsSome(waitRes[i].receipt) /\ ~Get(waitRes[i].receipt).ok
              /\ Get(waitRes[i].receipt).failure = timeout) =>
              /\ waitRes[i].settled.pc = "returned"
              /\ IsSome(Get(waitRes[i].settled.result).error)
              /\ isClankerError(Get(Get(waitRes[i].settled.result).error))

-----------------------------------------------------------------------------
(* Clanker.deploy: payload assembly handed to deployToken *)

\* Requests of a deployment attempt: one that converts, one the schema rejects,
\* one over the legacy devBuy route, one with vanity.
ClankerDeployRequests ==
    {baseRequest,
     [baseRequest EXCEPT !.tokenAdmin = zeroAddress],
     [baseRequest EXCEPT !.devBuy = Some([poolType |-> "v3", ethAmount |-> 2,
                                          v3PoolFee |-> 3000, amountOutMin |-> 0])],
     [baseRequest EXCEPT !.vanity = TRUE]}

ClankerDeployInit ==
    /\ request \in ClankerDeployRequests
    /\ target \in ExtTargets
    /\ cpc = "idle"
    /\ cfg = None
    /\ vanityRes = noVanity
    /\ oracleQueries = 0
    /\ airdropLocals = noLocals
    /\ payload = None
    /\ convError = ""
    /\ ErrIdle
    /\ WaitIdle
    /\ V3Idle
    /\ op = "deploy"
    /\ simulate = FALSE
    /\ clients \in [wallet : BOOLEAN, publicClient : BOOLEAN]
    /\ tx = [chainId |-> 0, gas |-> None]
    /\ walletAccount = TRUE
    /\ clientChainId \in ChainIds
    /\ walletChainId \in ChainIds
    /\ dpc = "start"
    /\ calls = <<>>
    /\ gasRes = None /\ simRes = None /\ writeRes = None /\ opRes = None
    /\ opThrown = ""

\* Mutant of getDeployTransaction: a failed conversion is swallowed and resolves
\* to undefined.
getDeployTransactionSwallows(pc, result) ==
    IF pc = "returned" THEN [state |-> "fulfilled", input |-> result]
    ELSE IF pc = "thrown" THEN [state |-> "fulfilled", input |-> None]
    ELSE [state |-> "pending", input |-> None]

\* getDeployTransaction (lines 351-353): the converter's promise, as awaited by deploy.
getDeployTransaction(pc, result) ==
    IF pc = "returned" THEN [state |-> "fulfilled", input |-> result]
    ELSE IF pc = "thrown" THEN [state |-> "rejected", input |-> None]
    ELSE [state |-> "pending", input |-> None]

\* Clanker.deploy, lines 378-382: the two collaborator checks, then the converter is called.
ClankerDeployCall ==
    /\ op = "deploy" /\ dpc = "start" /\ cpc = "idle"
    /\ IF ~clients.wallet THEN
           /\ dpc' = "thrown"
           /\ opThrown' = "Wallet client required for deployment"
           /\ UNCHANGED cpc
       ELSE IF ~clients.publicClient THEN
           /\ dpc' = "thrown"
           /\ opThrown' = "Public client required for deployment"
           /\ UNCHANGED cpc
       ELSE
           /\ dpc' = "converting"
           /\ cpc' = "start"
           /\ UNCHANGED opThrown
    /\ UNCHANGED <<request, target, cfg, vanityRes, oracleQueries, airdropLocals, payload,
                   convError>>
    /\ UNCHANGED <<op, simulate, clients, tx, walletAccount, clientChainId, walletChainId,
                   calls, gasRes, simRes, writeRes, opRes>>
    /\ UNCHANGED <<errVars, waitVars, v3Vars>>

\* Clanker.deploy, lines 382-384: the awaited conversion settles; a rejection
\* rejects deploy, a payload is handed to deployToken.
ClankerDeploySettles ==
    /\ op = "deploy" /\ dpc = "converting"
    /\ LET awaited == getDeployTransaction(cpc, payload) IN
       /\ awaited.state # "pending"
       /\ IF awaited.state = "rejected" THEN
              /\ dpc' = "thrown"
              /\ opThrown' = convError
              /\ UNCHANGED <<op, tx>>
          ELSE
              /\ op' = "deployToken"
              /\ dpc' = "start"
              /\ tx' = [chainId |-> IF IsSome(awaited.input) THEN Get(awaited.input).chainId
                                    ELSE 0,
                        gas |-> None]
              /\ UNCHANGED opThrown
    /\ UNCHANGED <<simulate, clients, walletAccount, clientChainId, walletChainId,
                   calls, gasRes, simRes, writeRes, opRes>>
    /\ UNCHANGED <<convVars, errVars, waitVars, v3Vars>>

ClankerDeployNext ==
    \/ ClankerDeployCall
    \/ Parse
    \/ VanityAnswer
    \/ VanityFailure
    \/ Assemble
    \/ ClankerDeploySettles
    \/ DeployTokenCall
    \/ EstimateGasSettles
    \/ SimulateSettles
    \/ WriteSettles

SpecClankerDeploy == ClankerDeployInit /\ [][ClankerDeployNext]_vars

\* C19: when payload assembly fails (validation, precision or configuration
\* error), Clanker.deploy ends with that error: deployToken is never entered and
\* no gas estimation, simulation or submission is ever invoked.
C19_FailedAssemblyNeverExecutes ==
    cpc = "thrown" =>
        /\ convError # ""
        /\ payload = None
        /\ op = "deploy"
        /\ dpc \in {"converting", "thrown"}
        /\ dpc = "thrown" => opThrown = convError
        /\ calls = <<>>
        /\ gasRes = None /\ simRes = None /\ writeRes = None /\ opRes = None

\* C19 witness: deploy rejected with the converter's configuration error.
C19_Witness ==
    /\ op = "deploy"
    /\ cpc = "thrown" /\ dpc = "thrown"
    /\ convError = "V3 devBuy extension is not deployed on this chain"
    /\ opThrown = convError
    /\ calls = <<>>

-----------------------------------------------------------------------------
(* config/clankerTokenV3.ts: clankerTokenV3 and clankerTokenV3Converter *)

\* viem's isAddress, on the addresses used here.
isAddress(a) == a \notin {Undefined, "not-an-address"}

WETH_ADDRESSES_base == "0x4200000000000000000000000000000000000006"
AbstractEthAddress == "0x3439153EB7AF838Ad19d56E1571FBD09333C2809"

\* clankerTokenV3 (lines 23-95), on the fields the model carries: chainId one of
\* the two literals, quoteToken an address, vault.percentage at most 30.
v3SchemaAccepts(r) ==
    /\ r.chainId \in {8453, 2741}
    /\ IsSome(r.pool) => isAddress(Get(r.pool).quoteToken)
    /\ IsSome(r.vault) => Get(r.vault).percentage <= 30

\* The defaults of pool (lines 46-49), vault (58-61) and devBuy (80-82).
v3WithDefaults(r) ==
    [r EXCEPT !.pool = IF IsSome(r.pool) THEN Get(r.pool)
                       ELSE [quoteToken |-> WETH_ADDRESSES_base, initialMarketCap |-> 10],
              !.vault = IF IsSome(r.vault) THEN Get(r.vault)
                        ELSE [percentage |-> 0, durationInDays |-> 0]]

\* getTokenPairByAddress (lines 214-243).
getTokenPairByAddress(address) ==
    IF address = WETH_ADDRESSES_base THEN "WETH"
    ELSE IF address = "DEGEN_ADDRESS" THEN "DEGEN"
    ELSE IF address = "NATIVE_ADDRESS" THEN "NATIVE"
    ELSE IF address = "CLANKER_ADDRESS" THEN "CLANKER"
    ELSE IF address = "ANON_ADDRESS" THEN "ANON"
    ELSE IF address = "HIGHER_ADDRESS" THEN "HIGHER"
    ELSE IF address = "CB_BTC_ADDRESS" THEN "BTC"
    ELSE IF address = "A0X_ADDRESS" THEN "A0x"
    ELSE IF address = AbstractEthAddress THEN "AbstractEth"
    ELSE "WETH"

\* getDesiredPriceAndPairAddress (lines 245-328).  The price is a floating-point
\* constant of the pair, scaled by the market cap for WETH and AbstractEth; it is
\* kept as the pair and the market cap it is computed from.
getDesiredPriceAndPairAddress(pair, marketCap) ==
    [desiredPrice |-> [pair |-> pair,
                       marketCap |-> IF pair \in {"WETH", "AbstractEth"} THEN marketCap ELSE 0],
     pairAddress |->
        CASE pair = "WETH" -> WETH_ADDRESSES_base
          [] pair = "DEGEN" -> "DEGEN_ADDRESS"
          [] pair = "CLANKER" -> "CLANKER_ADDRESS"
          [] pair = "ANON" -> "ANON_ADDRESS"
          [] pair = "HIGHER" -> "HIGHER_ADDRESS"
          [] pair = "BTC" -> "CB_BTC_ADDRESS"
          [] pair = "NATIVE" -> "NATIVE_ADDRESS"
          [] pair = "A0x" -> "A0X_ADDRESS"
          [] pair = "WMON" -> "0x760AfE86e5de5fa0Ee542fc7B7B713e1c5425701"
          [] pair = "AbstractEth" -> AbstractEthAddress
          [] OTHER -> WETH_ADDRESSES_base]

\* findVanityAddress, lines 50-55: return { token: address, salt }.
findVanityAddress(answer) == [salt |-> answer.salt, token |-> answer.address]

\* Math.floor(Date.now() / 1000): the clock's whole seconds.
unixSeconds(c) == c.s

\* Line 138: Math.floor(Date.now() / 1000 + durationInDays * 24 * 60 * 60), for a
\* whole number of days.
vestingUnlockDateOf(c, durationInDays) == unixSeconds(c) + durationInDays * 24 * 60 * 60

\* getRelativeUnixTimestamp (lines 184-199), reading the clock c.
getRelativeUnixTimestamp(unixTimestamp, c) ==
    IF unixTimestamp # 0 /\ unixTimestamp > 0
    THEN LET currentTimestamp == unixSeconds(c)
             targetTimestamp == unixTimestamp
         IN IF targetTimestamp > currentTimestamp
            THEN targetTimestamp - currentTimestamp
            ELSE 31 * 24 * 60 * 60
    ELSE 0

\* Line 139: cfg.vault.durationInDays ? getRelativeUnixTimestamp(vestingUnlockDate) : 0n.
vestingDurationOf(c, durationInDays, vestingUnlockDate) ==
    IF durationInDays # 0 THEN getRelativeUnixTimestamp(vestingUnlockDate, c) ELSE 0

\* Lines 141-181: the returned transaction config.  The initial tick is a
\* floating-point function of the desired price and is kept as that price.
v3PayloadOf(c, requestorAddress, locals, vestingDuration) ==
    [address |-> IF c.chainId = 2741 THEN "clanker_v3_1_abstract" ELSE "clanker_v3_1",
     functionName |-> "deployToken",
     tokenConfig |-> [name |-> c.name, symbol |-> c.symbol, salt |-> locals.salt,
                      originatingChainId |-> c.chainId],
     poolConfig |-> [pairedToken |-> locals.pairAddress,
                     tickIfToken0IsNewToken |->
                        getDesiredPriceAndPairAddress(
                            getTokenPairByAddress(c.pool.quoteToken),
                            c.pool.initialMarketCap).desiredPrice],
     initialBuyConfig |-> [pairedTokenPoolFee |-> 10000,
                           pairedTokenSwapAmountOutMinimum |-> 0],
     vaultConfig |-> [vaultDuration |-> vestingDuration,
                      vaultPercentage |-> c.vault.percentage],
     rewardsConfig |-> [creatorReward |-> c.creatorReward,
                        creatorAdmin |-> IF c.creatorAdmin # Undefined THEN c.creatorAdmin
                                         ELSE requestorAddress],
     value |-> c.devBuyEthAmount * WeiPerToken,
     expectedAddress |-> locals.expectedAddress,
     chainId |-> c.chainId]

\* Requests of the V3 converter.
baseV3Request ==
    [requestorAddress |-> "0xA1", name |-> "My Token", symbol |-> "MTK", chainId |-> 8453,
     pool |-> None, vault |-> None, devBuyEthAmount |-> 0, creatorReward |-> 40,
     creatorAdmin |-> Undefined]

QuoteTokens ==
    {WETH_ADDRESSES_base, "DEGEN_ADDRESS", "NATIVE_ADDRESS", "CLANKER_ADDRESS", "ANON_ADDRESS",
     "HIGHER_ADDRESS", "CB_BTC_ADDRESS", "A0X_ADDRESS", AbstractEthAddress,
     "0xOtherToken", "not-an-address"}

\* Requests that vary the quote token, the requestor and the chain.
V3PoolRequests ==
    {[baseV3Request EXCEPT !.pool = Some([quoteToken |-> q, initialMarketCap |-> 10])] :
        q \in QuoteTokens}
    \cup {[baseV3Request EXCEPT !.requestorAddress = a, !.chainId = n, !.creatorAdmin = ca] :
            a \in {"0xA1", Undefined, "not-an-address"}, n \in {8453, 2741, 1},
            ca \in {Undefined, "0xC3"}}

\* Requests that vary the vault.
V3VaultRequests ==
    {[baseV3Request EXCEPT !.vault = Some([percentage |-> q, durationInDays |-> d])] :
        q \in {0, 30, 31}, d \in {0, 1, 30, -1}}

\* How far the clock may run during one conversion, and by which steps.
MaxClockSeconds == 2
ClockSteps == {500, 1000}

V3Init ==
    /\ v3Request \in {Some(r) : r \in V3PoolRequests \cup V3VaultRequests}
    /\ clock \in [s : {ClockStart}, ms : {0, 499}]
    /\ v3pc = "start"
    /\ v3Cfg = None
    /\ v3Locals = noV3Locals
    /\ v3Payload = None
    /\ v3Error = ""
    /\ request = baseRequest /\ target = fullTarget /\ cpc = "start" /\ cfg = None
    /\ vanityRes = noVanity /\ oracleQueries = 0 /\ airdropLocals = noLocals
    /\ payload = None /\ convError = ""
    /\ ErrIdle
    /\ op = "none"
    /\ simulate = FALSE
    /\ clients = bothClients
    /\ tx = [chainId |-> 8453, gas |-> None]
    /\ walletAccount = TRUE
    /\ clientChainId = 8453
    /\ walletChainId = 8453
    /\ dpc = "start"
    /\ calls = <<>>
    /\ gasRes = None /\ simRes = None /\ writeRes = None /\ opRes = None
    /\ opThrown = ""
    /\ WaitIdle

\* Lines 108-136, up to the await: the requestor check, parse, the pair lookup,
\* then the query to the address-mining oracle.
V3Parse ==
    /\ v3pc = "start"
    /\ LET r == Get(v3Request) IN
       IF ~isAddress(r.requestorAddress) THEN
           /\ v3pc' = "thrown"
           /\ v3Error' = "Requestor address is invalid"
           /\ UNCHANGED <<v3Cfg, v3Locals>>
       ELSE IF ~v3SchemaAccepts(r) THEN
           /\ v3pc' = "thrown"
           /\ v3Error' = "ZodError"
           /\ UNCHANGED <<v3Cfg, v3Locals>>
       ELSE
           LET c == v3WithDefaults(r) IN
           /\ v3Cfg' = Some(c)
           /\ v3Locals' = [v3Locals EXCEPT
                  !.pairAddress = getDesiredPriceAndPairAddress(
                                      getTokenPairByAddress(c.pool.quoteToken),
                                      c.pool.initialMarketCap).pairAddress]
           /\ v3pc' = "vanity"
           /\ UNCHANGED v3Error
    /\ UNCHANGED <<v3Request, clock, v3Payload>>
    /\ UNCHANGED <<convVars, errVars, deployVars, waitVars>>

\* findVanityAddress resolves (lines 131-136) and the unlock date is computed
\* from the clock (line 138).
V3VanityAnswer ==
    /\ v3pc = "vanity"
    /\ \E r \in OracleAnswers :
         LET found == findVanityAddress(r) IN
         v3Locals' = [v3Locals EXCEPT
             !.salt = found.salt,
             !.expectedAddress = found.token,
             !.vestingUnlockDate = vestingUnlockDateOf(clock, Get(v3Cfg).vault.durationInDays)]
    /\ v3pc' = "unlockDate"
    /\ UNCHANGED <<v3Request, clock, v3Cfg, v3Payload, v3Error>>
    /\ UNCHANGED <<convVars, errVars, deployVars, waitVars>>

\* fetch rejects: the converter rejects with the same failure.
V3VanityFailure ==
    /\ v3pc = "vanity"
    /\ v3pc' = "thrown"
    /\ v3Error' = "fetch failed"
    /\ UNCHANGED <<v3Request, clock, v3Cfg, v3Locals, v3Payload>>
    /\ UNCHANGED <<convVars, errVars, deployVars, waitVars>>

\* Lines 139-181: the vesting duration, which reads the clock again when the
\* vault has a duration, and the returned object.
V3Return ==
    /\ v3pc = "unlockDate"
    /\ LET c == Get(v3Cfg)
           vestingDuration == vestingDurationOf(clock, c.vault.durationInDays,
                                                v3Locals.vestingUnlockDate)
       IN v3Payload' = Some(v3PayloadOf(c, Get(v3Request).requestorAddress, v3Locals,
                                        vestingDuration))
    /\ v3pc' = "returned"
    /\ UNCHANGED <<v3Request, clock, v3Cfg, v3Locals, v3Error>>
    /\ UNCHANGED <<convVars, errVars, deployVars, waitVars>>

\* The wall clock runs on while the converter is at work.
ClockTick ==
    /\ v3pc \in {"start", "vanity", "unlockDate"}
    /\ clock.s < ClockStart + MaxClockSeconds
    /\ \E step \in ClockSteps :
         clock' = [s |-> clock.s + (clock.ms + step) \div 1000,
                   ms |-> (clock.ms + step) % 1000]
    /\ UNCHANGED <<v3Request, v3pc, v3Cfg, v3Locals, v3Payload, v3Error>>
    /\ UNCHANGED <<convVars, errVars, deployVars, waitVars>>

V3Next ==
    \/ V3Parse
    \/ V3VanityAnswer
    \/ V3VanityFailure
    \/ V3Return
    \/ ClockTick

SpecV3 == V3Init /\ [][V3Next]_vars

\* C29: a payload of a request whose vault lasts d whole days carries a
\* vaultDuration of d * 86,400 seconds when d > 0, whatever the clock did between
\* the two reads of the conversion, and of 0 when d = 0.
C29_VaultDurationExact ==
    IsSome(v3Payload) =>
        LET d == Get(v3Cfg).vault.durationInDays
            vaultDuration == Get(v3Payload).vaultConfig.vaultDuration
        IN /\ d > 0 => vaultDuration = d * 86400
           /\ d = 0 => vaultDuration = 0

\* C30: the pairedToken of a payload is the quoteToken of the request (the
\* default quote token when the request has no pool).
C30_PairedTokenIsQuoteToken ==
    IsSome(v3Payload) =>
        Get(v3Payload).poolConfig.pairedToken =
            (IF IsSome(Get(v3Request).pool) THEN Get(Get(v3Request).pool).quoteToken
             ELSE WETH_ADDRESSES_base)

====
